---- MODULE Spec2Model ----
(***************************************************************************)
(* Model of plugins/pangguai_life.py (src/main.py): the JSON key-value     *)
(* store, the Qinglong panel client, the PangGuai vendor client, the login *)
(* and manage conversations and the scheduled sweep.                       *)
(*                                                                         *)
(* Text is modelled as a sequence of characters, each character a string.  *)
(* ASCII characters stand for themselves; the CJK characters of the remark *)
(* template are written by name ("<pang>" for U+80D6, "<guai>" for U+4E56, *)
(* "<gun>" for the delimiter U+4E28, and so on), so that substring search, *)
(* URL quoting and date formatting are computed on the characters.         *)
(* An absent value (Python None) is the empty sequence <<>>, a present     *)
(* value v is <<v>>.                                                       *)
(***************************************************************************)
EXTENDS Integers, Sequences, FiniteSets, TLC

VARIABLES
    plugin_data,  \* the loaded JSON document: buckets users, tokens, mobiles, auths
    envs,         \* the panel's variables, in the order the panel lists them
    next_id,      \* the id the panel gives to the next variable it creates
    today,        \* the current date (datetime.now().date())
    conv,         \* per chat user: the pending prompt and matcher.state
    sweep,        \* the running scheduled_check: its position and local variables
    probe,        \* what the step just taken was called with and returned
    used,         \* how many chat commands and scheduled runs have started, and
                  \* how many outcomes drawn for panel and vendor calls were failures
    data_file,    \* the content of data/pangguai_life/pangguai_data.json
    ql_client,    \* the fields _token and _token_expires_at of the QLClient
    now           \* time.time(), in seconds

vars == <<plugin_data, envs, next_id, today, conv, sweep, probe, used, data_file,
          ql_client, now>>

(***************************************************************************)
(* Text                                                                    *)
(***************************************************************************)
Digits == <<"0", "1", "2", "3", "4", "5", "6", "7", "8", "9">>

IsDigit(c) == \E n \in 1..10 : Digits[n] = c

DigitVal(c) == (CHOOSE n \in 1..10 : Digits[n] = c) - 1

\* str.isdigit(): non-empty and every character a digit
isdigit(s) == Len(s) > 0 /\ \A i \in 1..Len(s) : IsDigit(s[i])

\* Python's `sub in text`
Contains(sub, text) ==
    \/ Len(sub) = 0
    \/ \E i \in 1..(Len(text) - Len(sub) + 1) :
          /\ text[i] = sub[1]
          /\ \A j \in 2..Len(sub) : text[i + j - 1] = sub[j]

\* Python slice text[a:b] for 0 <= a, clipped at the end of the text
Slice(text, a, b) ==
    SubSeq(text, a + 1, IF b < Len(text) THEN b ELSE Len(text))

\* zero-padded decimal of n in w digits
RECURSIVE NumStr(_, _)
NumStr(n, w) ==
    IF w = 0 THEN <<>> ELSE NumStr(n \div 10, w - 1) \o <<Digits[(n % 10) + 1]>>

RECURSIVE NumVal(_)
NumVal(s) ==
    IF Len(s) = 0 THEN 0
    ELSE 10 * NumVal(SubSeq(s, 1, Len(s) - 1)) + DigitVal(s[Len(s)])

\* characters urllib.parse.quote leaves alone among those the model uses; the
\* others become "%XX"
QuoteChar(c) ==
    CASE c = "=" -> <<"%", "3", "D">>
      [] c = "+" -> <<"%", "2", "B">>
      [] c = " " -> <<"%", "2", "0">>
      [] OTHER -> <<c>>

RECURSIVE quote(_)
quote(value) ==
    IF Len(value) = 0 THEN <<>>
    ELSE QuoteChar(Head(value)) \o quote(Tail(value))

\* the mask that takes up the phone again one digit late
display_phone_from_9th(phone) ==
    Slice(phone, 0, 3) \o <<"*", "*", "*", "*">> \o Slice(phone, 8, Len(phone))

\* f"{phone[:3]}****{phone[7:]}"
display_phone(phone) ==
    Slice(phone, 0, 3) \o <<"*", "*", "*", "*">> \o Slice(phone, 7, Len(phone))

(***************************************************************************)
(* Calendar dates: a date is its number of days since 1970-01-01           *)
(***************************************************************************)
IsLeap(y) == (y % 4 = 0 /\ y % 100 # 0) \/ y % 400 = 0

DaysInMonth(y, m) ==
    IF m = 2 THEN (IF IsLeap(y) THEN 29 ELSE 28)
    ELSE IF m \in {4, 6, 9, 11} THEN 30 ELSE 31

DaysFromCivil(y, m, d) ==
    LET yy == IF m <= 2 THEN y - 1 ELSE y
        era == yy \div 400
        yoe == yy - era * 400
        mp == IF m > 2 THEN m - 3 ELSE m + 9
        doy == (153 * mp + 2) \div 5 + d - 1
        doe == yoe * 365 + yoe \div 4 - yoe \div 100 + doy
    IN era * 146097 + doe - 719468

CivilFromDays(z0) ==
    LET z == z0 + 719468
        era == z \div 146097
        doe == z - era * 146097
        yoe == (doe - doe \div 1460 + doe \div 36524 - doe \div 146096) \div 365
        doy == doe - (365 * yoe + yoe \div 4 - yoe \div 100)
        mp == (5 * doy + 2) \div 153
        d == doy - (153 * mp + 2) \div 5 + 1
        m == IF mp < 10 THEN mp + 3 ELSE mp - 9
        y == yoe + era * 400 + (IF m <= 2 THEN 1 ELSE 0)
    IN [y |-> y, m |-> m, d |-> d]

\* str(date): "YYYY-MM-DD"
DateStr(day) ==
    LET c == CivilFromDays(day)
    IN NumStr(c.y, 4) \o <<"-">> \o NumStr(c.m, 2) \o <<"-">> \o NumStr(c.d, 2)

\* datetime.strptime(s, "%Y-%m-%d") succeeds (no ValueError) on the zero-padded
\* form the program itself writes
CanParseDate(s) ==
    /\ Len(s) = 10
    /\ s[5] = "-" /\ s[8] = "-"
    /\ \A i \in {1, 2, 3, 4, 6, 7, 9, 10} : IsDigit(s[i])
    /\ LET y == NumVal(SubSeq(s, 1, 4))
           m == NumVal(SubSeq(s, 6, 7))
           d == NumVal(SubSeq(s, 9, 10))
       IN y >= 1 /\ m \in 1..12 /\ d >= 1 /\ d <= DaysInMonth(y, m)

\* datetime.strptime(s, "%Y-%m-%d").date()
ParseDate(s) ==
    DaysFromCivil(NumVal(SubSeq(s, 1, 4)), NumVal(SubSeq(s, 6, 7)),
                  NumVal(SubSeq(s, 9, 10)))

get_today_str == DateStr(today)

\* str.strip() for the blank character
RECURSIVE strip(_)
strip(s) ==
    IF Len(s) > 0 /\ Head(s) = " " THEN strip(Tail(s))
    ELSE IF Len(s) > 0 /\ s[Len(s)] = " " THEN strip(SubSeq(s, 1, Len(s) - 1))
    ELSE s

LowerChar(c) ==
    CASE c = "Q" -> "q" [] c = "Y" -> "y" [] c = "N" -> "n" [] OTHER -> c

\* str.lower()
lower(s) == [i \in 1..Len(s) |-> LowerChar(s[i])]

\* int(s) raises no ValueError: an optional sign and digits
CanParseInt(s) ==
    IF Len(s) > 0 /\ s[1] = "-" THEN isdigit(Tail(s)) ELSE isdigit(s)

\* int(s)
ParseInt(s) ==
    IF Len(s) > 0 /\ s[1] = "-" THEN 0 - NumVal(Tail(s)) ELSE NumVal(s)

\* list(dict.fromkeys(xs)): the first occurrence of every element, in order
RECURSIVE Dedup(_)
Dedup(xs) ==
    IF Len(xs) = 0 THEN <<>>
    ELSE LET front == Dedup(SubSeq(xs, 1, Len(xs) - 1))
             x == xs[Len(xs)]
         IN IF \E i \in 1..Len(front) : front[i] = x THEN front
            ELSE Append(front, x)

InSeq(x, xs) == \E i \in 1..Len(xs) : xs[i] = x

\* a removal that drops the last element, whatever it is
remove_last_element(xs, x) == SubSeq(xs, 1, Len(xs) - 1)

\* list.remove(x): drops the first occurrence
RemoveFirst(xs, x) ==
    LET i == CHOOSE j \in 1..Len(xs) : xs[j] = x /\ \A k \in 1..(j - 1) : xs[k] # x
    IN SubSeq(xs, 1, i - 1) \o SubSeq(xs, i + 1, Len(xs))

(***************************************************************************)
(* The deployment and the people and accounts of the model                 *)
(***************************************************************************)
\* PangGuaiConfig.pangguai_osname
osname == "pangguai"

U1 == <<"1", "0", "0", "0", "1">>
U2 == <<"1", "0", "0", "0", "2">>
Users == {U1, U2}

P1 == <<"1", "3", "8", "0", "0", "1", "3", "8", "0", "0", "0">>
P2 == <<"1", "3", "9", "0", "0", "1", "3", "9", "0", "0", "0">>
Phones == {P1, P2}

\* vendor account ids (str(data["id"])); the digits of A2 also occur in P1
A1 == <<"4", "2", "1">>
A2 == <<"1", "3", "8", "0">>
Accounts == {A1, A2}

\* the account the vendor holds for a phone
VendorAccount(phone) == IF phone = P1 THEN A1 ELSE A2

T1 == <<"t", "=", "1">>
T2 == <<"t", "=", "2">>
Tokens == {T1, T2}

(***************************************************************************)
(* Key-value store: plugin_data, rewritten to the JSON file on every write *)
(* The users bucket keeps its keys in insertion order (a Python dict); its *)
(* values are account lists, written as f'{list}' and read back with eval. *)
(***************************************************************************)
EmptyMap == [k \in {} |-> <<>>]

EmptyData ==
    [users |-> <<>>, tokens |-> EmptyMap, mobiles |-> EmptyMap, auths |-> EmptyMap]

UserIndex(data, key) == {i \in 1..Len(data.users) : data.users[i].k = key}

bucket_get(data, bucket, key) ==
    IF bucket = "users"
    THEN IF UserIndex(data, key) = {} THEN <<>>
         ELSE <<data.users[CHOOSE i \in UserIndex(data, key) : TRUE].v>>
    ELSE IF key \in DOMAIN data[bucket] THEN <<data[bucket][key]>> ELSE <<>>

bucket_set(data, bucket, key, value) ==
    IF bucket = "users"
    THEN IF UserIndex(data, key) = {}
         THEN [data EXCEPT !.users = Append(@, [k |-> key, v |-> value])]
         ELSE [data EXCEPT !.users =
                  [i \in 1..Len(@) |-> IF @[i].k = key THEN [k |-> key, v |-> value]
                                       ELSE @[i]]]
    ELSE [data EXCEPT ![bucket] =
             [x \in DOMAIN @ \cup {key} |-> IF x = key THEN value ELSE @[x]]]

\* bucket_del that empties the bucket
bucket_clear(data, bucket, key) ==
    IF bucket = "users" THEN [data EXCEPT !.users = <<>>]
    ELSE [data EXCEPT ![bucket] = EmptyMap]

bucket_del(data, bucket, key) ==
    IF bucket = "users"
    THEN [data EXCEPT !.users = SelectSeq(@, LAMBDA e : e.k # key)]
    ELSE [data EXCEPT ![bucket] = [x \in DOMAIN @ \ {key} |-> @[x]]]

\* bucket_all_keys('users')
bucket_all_keys(data) == [i \in 1..Len(data.users) |-> data.users[i].k]

\* eval(bucket_get('users', user_id) or '[]')
UserAccounts(data, user_id) ==
    LET got == bucket_get(data, "users", user_id)
    IN IF got = <<>> THEN <<>> ELSE got[1]

(***************************************************************************)
(* The JSON file.  Its content is a whole document, or what a write that   *)
(* failed midway left of it (open(..., 'w') has truncated the file), which *)
(* json.loads rejects.                                                     *)
(***************************************************************************)
\* the file after json.dump(data, f) has completed
File(data) == [whole |-> TRUE, doc |-> data]

Truncated == [whole |-> FALSE, doc |-> EmptyData]

\* load_data: the document of the file, the empty document when the content
\* is empty or no JSON
load_data(file) == IF file.whole THEN file.doc ELSE EmptyData

\* how the write of save_data goes: it completes, open fails (the file stays
\* as it was), or the write fails after open
WriteOutcomes == {"ok", "open_failed", "write_failed"}

\* save_data with the IOError let through to the caller
save_data_raising(data, file, w) ==
    [file |-> IF w = "ok" THEN File(data)
              ELSE IF w = "open_failed" THEN file ELSE Truncated,
     raised |-> w # "ok"]

\* save_data: the file afterwards, and whether an exception leaves the call;
\* the IOError is caught and logged
save_data(data, file, w) ==
    [file |-> IF w = "ok" THEN File(data)
              ELSE IF w = "open_failed" THEN file ELSE Truncated,
     raised |-> FALSE]

(***************************************************************************)
(* The panel token.  The answer of the panel to GET /open/auth/token is an *)
(* input: kind "ok" (status 200, envelope code 200, a token and maybe an   *)
(* expiration), "network" (httpx.RequestError), "http" (a status other     *)
(* than 200, raise_for_status) or "code" (an envelope code other than 200).*)
(***************************************************************************)
\* QLClient.__init__
NewClient == [_token |-> <<>>, _token_expires_at |-> 0]

PanelTokens == {"q1"}

\* the expiration member of the answer, in seconds; <<>> when it has none
Expirations == {<<>>, <<900>>}

ExchangeFailures ==
    {[kind |-> k, token |-> "", expiration |-> <<>>] : k \in {"network", "http", "code"}}

TokenResponses ==
    [kind : {"ok"}, token : PanelTokens, expiration : Expirations] \cup ExchangeFailures

\* _get_token that falls back on the token it holds when the exchange fails
get_token_keeping_old(client, t, resp) ==
    IF client._token # <<>> /\ client._token_expires_at > t + 300
    THEN [client |-> client, ret |-> client._token, exchanged |-> FALSE]
    ELSE IF resp.kind = "ok"
    THEN [client |-> [_token |-> <<resp.token>>,
                      _token_expires_at |->
                          t + ((IF resp.expiration = <<>> THEN 86400
                                ELSE resp.expiration[1]) - 300)],
          ret |-> <<resp.token>>, exchanged |-> TRUE]
    ELSE [client |-> client, ret |-> client._token, exchanged |-> TRUE]

\* QLClient._get_token at time t, resp being the panel's answer should an
\* exchange be made: the client afterwards, the returned token (absent: <<>>)
\* and whether an exchange was made
_get_token(client, t, resp) ==
    IF client._token # <<>> /\ client._token_expires_at > t + 300
    THEN [client |-> client, ret |-> client._token, exchanged |-> FALSE]
    ELSE IF resp.kind = "ok"
    THEN [client |-> [_token |-> <<resp.token>>,
                      _token_expires_at |->
                          t + ((IF resp.expiration = <<>> THEN 86400
                                ELSE resp.expiration[1]) - 300)],
          ret |-> <<resp.token>>, exchanged |-> TRUE]
    ELSE [client |-> client, ret |-> <<>>, exchanged |-> TRUE]

\* QLClient._request: without a token it returns None and sends nothing;
\* with one it sends the request, which the panel answers with code 200 (ok)
\* or not
_request(client, t, resp, ok) ==
    LET g == _get_token(client, t, resp)
    IN [client |-> g.client, exchanged |-> g.exchanged, token |-> g.ret,
        sent |-> g.ret # <<>>, ok |-> g.ret # <<>> /\ ok]

(***************************************************************************)
(* Qinglong panel client.  The panel is the list envs of variables         *)
(* [id, name, value, remarks]; ids are handed out by the panel from        *)
(* next_id upward and never reused.  Every panel call either succeeds or   *)
(* fails (no token, network error, non-200): its outcome is an input.      *)
(***************************************************************************)
\* the panel creates at most this many variables in a run of the model
MaxEnvId == 3

\* QLClient.get_envs: the list, absent when the call fails
get_envs(panel, ok) == IF ok THEN <<panel>> ELSE <<>>

\* QLClient.add_env: the panel after the call; the call returns the new
\* variable exactly when the panel changed
add_env(panel, nid, name, value, remarks, ok) ==
    IF ok
    THEN Append(panel, [id |-> nid, name |-> name, value |-> value, remarks |-> remarks])
    ELSE panel

\* QLClient.update_env
update_env(panel, env_id, name, value, remarks, ok) ==
    IF ok
    THEN [i \in 1..Len(panel) |->
             IF panel[i].id = env_id
             THEN [id |-> env_id, name |-> name, value |-> value, remarks |-> remarks]
             ELSE panel[i]]
    ELSE panel

\* QLClient.delete_envs
delete_envs(panel, ids, ok) ==
    IF Len(ids) > 0 /\ ok THEN SelectSeq(panel, LAMBDA e : ~InSeq(e.id, ids))
    ELSE panel

\* f'胖乖:{phone}'
PhoneTag(phone) == <<"<pang>", "<guai>", ":">> \o phone

\* the loop of get_env_by_remark_and_name from position i on, phone_match
\* being the phone match recorded so far
RECURSIVE ScanEnvs(_, _, _, _, _, _)
ScanEnvs(list, i, name, account_id, phone, phone_match) ==
    IF i > Len(list) THEN phone_match
    ELSE LET env == list[i]
         IN IF env.name # name \/ Len(env.remarks) = 0
            THEN ScanEnvs(list, i + 1, name, account_id, phone, phone_match)
            ELSE IF Contains(account_id, env.remarks) THEN <<env>>
            ELSE IF Len(phone) > 0 /\ Contains(PhoneTag(phone), env.remarks)
            THEN ScanEnvs(list, i + 1, name, account_id, phone, <<env>>)
            ELSE ScanEnvs(list, i + 1, name, account_id, phone, phone_match)

\* the loop with the phone test before the account test and a return on the
\* first phone match
RECURSIVE ScanPhoneWins(_, _, _, _, _)
ScanPhoneWins(list, i, name, account_id, phone) ==
    IF i > Len(list) THEN <<>>
    ELSE LET env == list[i]
         IN IF env.name # name \/ Len(env.remarks) = 0
            THEN ScanPhoneWins(list, i + 1, name, account_id, phone)
            ELSE IF Len(phone) > 0 /\ Contains(PhoneTag(phone), env.remarks) THEN <<env>>
            ELSE IF Contains(account_id, env.remarks) THEN <<env>>
            ELSE ScanPhoneWins(list, i + 1, name, account_id, phone)

get_env_phone_wins(got, name, account_id, phone) ==
    IF got = <<>> THEN <<>> ELSE ScanPhoneWins(got[1], 1, name, account_id, phone)

\* the loop keeping the first phone match instead of the latest
RECURSIVE ScanFirstPhone(_, _, _, _, _, _)
ScanFirstPhone(list, i, name, account_id, phone, phone_match) ==
    IF i > Len(list) THEN phone_match
    ELSE LET env == list[i]
         IN IF env.name # name \/ Len(env.remarks) = 0
            THEN ScanFirstPhone(list, i + 1, name, account_id, phone, phone_match)
            ELSE IF Contains(account_id, env.remarks) THEN <<env>>
            ELSE IF Len(phone) > 0 /\ Contains(PhoneTag(phone), env.remarks)
                    /\ phone_match = <<>>
            THEN ScanFirstPhone(list, i + 1, name, account_id, phone, <<env>>)
            ELSE ScanFirstPhone(list, i + 1, name, account_id, phone, phone_match)

get_env_first_phone(got, name, account_id, phone) ==
    IF got = <<>> THEN <<>> ELSE ScanFirstPhone(got[1], 1, name, account_id, phone, <<>>)

\* QLClient.get_env_by_remark_and_name, on the result of get_envs
get_env_by_remark_and_name(got, name, account_id, phone) ==
    IF got = <<>> THEN <<>>
    ELSE ScanEnvs(got[1], 1, name, account_id, phone, <<>>)

\* the remark add_or_update_env writes
Remarks(phone, user_id, auth_date) ==
    PhoneTag(phone) \o <<"<gun>", "<yong>", "<hu>", ":">> \o user_id
    \o <<"<gun>", "<shou>", "<quan>", "<shi>", "<jian>", ":">> \o auth_date
    \o <<"<gun>", "<pang>", "<guai>", "<guan>", "<li>">>

\* the panel after other writers have created the variables late, given
\* without their ids, which the panel hands out
WithLate(panel, nid, late) ==
    panel \o [i \in 1..Len(late) |->
                 [id |-> nid + i - 1, name |-> late[i].name, value |-> late[i].value,
                  remarks |-> late[i].remarks]]

\* add_or_update_env that sends the add once more when the first add failed
add_or_update_env_retrying(panel, nid, name, value, account, phone, user_id, auth_date, oc, late) ==
    LET existing_env == get_env_by_remark_and_name(get_envs(panel, oc.find), name, account, phone)
        quoted_value == quote(value)
        remarks == Remarks(phone, user_id, auth_date)
    IN IF existing_env # <<>>
       THEN [panel |-> update_env(panel, existing_env[1].id, name, quoted_value, remarks, oc.write),
             nid |-> nid,
             ret |-> oc.write,
             calls |-> <<"get_envs", "update_env">>]
       ELSE LET added == add_env(panel, nid, name, quoted_value, remarks, oc.write)
            IN IF added # panel
               THEN [panel |-> added, nid |-> nid + 1, ret |-> TRUE,
                     calls |-> <<"get_envs", "add_env">>]
               ELSE LET later == WithLate(panel, nid, late)
                        again == add_env(later, nid + Len(late), name, quoted_value,
                                         remarks, oc.recheck)
                    IN [panel |-> again,
                        nid |-> nid + Len(late) + (IF again # later THEN 1 ELSE 0),
                        ret |-> again # later,
                        calls |-> <<"get_envs", "add_env", "add_env">>]

\* QLClient.add_or_update_env.  oc gives the outcomes of its panel calls:
\* oc.find (the first listing), oc.write (the update or the add) and
\* oc.recheck (the listing after a failed add); late are the variables that
\* other writers have created by the time of that second listing.  The result
\* is the panel, the next id, the returned boolean and the panel calls made,
\* in order.
add_or_update_env(panel, nid, name, value, account, phone, user_id, auth_date, oc, late) ==
    LET existing_env == get_env_by_remark_and_name(get_envs(panel, oc.find), name, account, phone)
        quoted_value == quote(value)
        remarks == Remarks(phone, user_id, auth_date)
    IN IF existing_env # <<>>
       THEN [panel |-> update_env(panel, existing_env[1].id, name, quoted_value, remarks, oc.write),
             nid |-> nid,
             ret |-> oc.write,
             calls |-> <<"get_envs", "update_env">>]
       ELSE LET added == add_env(panel, nid, name, quoted_value, remarks, oc.write)
            IN IF added # panel
               THEN [panel |-> added, nid |-> nid + 1, ret |-> TRUE,
                     calls |-> <<"get_envs", "add_env">>]
               ELSE LET later == WithLate(panel, nid, late)
                    IN [panel |-> later, nid |-> nid + Len(late),
                        ret |-> get_env_by_remark_and_name(get_envs(later, oc.recheck),
                                                           name, account, phone) # <<>>,
                        calls |-> <<"get_envs", "add_env", "get_envs">>]

Outcomes == [find : BOOLEAN, write : BOOLEAN, recheck : BOOLEAN]

AllOk == [find |-> TRUE, write |-> TRUE, recheck |-> TRUE]

\* the outcomes the panel can give a call of add_or_update_env: once it has
\* created MaxEnvId variables an add can only fail
UpsertAllowed(panel, nid, name, account, phone, oc) ==
    \/ nid <= MaxEnvId
    \/ ~oc.write
    \/ get_env_by_remark_and_name(get_envs(panel, oc.find), name, account, phone) # <<>>

(***************************************************************************)
(* PangGuai vendor client.  A vendor response is an input: "ok", "fail"    *)
(* (code other than 0, HTTP or network error), "nofields" (code 0, data    *)
(* without the fields) or "badshape" (code 0 with data that is no object,  *)
(* on which data.get raises).                                              *)
(***************************************************************************)
Responses == {"ok", "fail", "nofields", "badshape"}

\* PangGuaiClient.verify_token: [raised, val]; val is absent or the tuple
verify_token(resp, phone, account_id) ==
    IF resp = "badshape" THEN [raised |-> TRUE, val |-> <<>>]
    ELSE IF resp = "ok"
    THEN [raised |-> FALSE,
          val |-> <<[phone |-> phone, account |-> account_id,
                     display |-> display_phone(phone)]>>]
    ELSE [raised |-> FALSE, val |-> <<>>]

\* PangGuaiClient.send_sms_code: the success flag
send_sms_code(resp) == resp = "ok"

\* PangGuaiClient.login_with_sms: reg is the response to user/reg carrying
\* token, ver the response to the user/info call that follows, account_id
\* the id that response carries
login_with_sms(phone, account_id, reg, token, ver) ==
    IF reg = "badshape" THEN [raised |-> TRUE, val |-> <<>>]
    ELSE IF reg = "ok"
    THEN LET verify_result == verify_token(ver, phone, account_id)
         IN IF verify_result.raised THEN [raised |-> TRUE, val |-> <<>>]
            ELSE IF verify_result.val # <<>>
            THEN [raised |-> FALSE,
                  val |-> <<[phone |-> verify_result.val[1].phone,
                             account |-> verify_result.val[1].account,
                             token |-> token,
                             display |-> verify_result.val[1].display]>>]
            ELSE [raised |-> FALSE, val |-> <<>>]
    ELSE [raised |-> FALSE, val |-> <<>>]

\* PangGuaiClient.get_account_info: [raised, val]; resp is the vendor's
\* answer to user/balance.  A failed points-record call leaves val present.
get_account_info(resp) ==
    IF resp = "badshape" THEN [raised |-> TRUE, val |-> <<>>]
    ELSE IF resp = "ok" THEN [raised |-> FALSE, val |-> <<"info">>]
    ELSE [raised |-> FALSE, val |-> <<>>]

(***************************************************************************)
(* Authorization dates                                                     *)
(***************************************************************************)
\* empower without the expiry test: a parsable date is always extended
empower_no_expiry_test(empowertime, me_as_int, today_dt) ==
    IF empowertime = <<>> \/ Len(empowertime[1]) = 0 \/ ~CanParseDate(empowertime[1])
    THEN DateStr(today_dt + me_as_int * 30)
    ELSE DateStr(ParseDate(empowertime[1]) + me_as_int * 30)

\* empower(empowertime, me_as_int) on the day today_dt; empowertime is
\* absent (<<>>) or <<text>>
empower(empowertime, me_as_int, today_dt) ==
    LET days_to_add == me_as_int * 30
    IN IF empowertime = <<>> \/ Len(empowertime[1]) = 0
       THEN DateStr(today_dt + days_to_add)
       ELSE IF ~CanParseDate(empowertime[1])
       THEN DateStr(today_dt + days_to_add)
       ELSE IF ParseDate(empowertime[1]) <= today_dt
       THEN DateStr(today_dt + days_to_add)
       ELSE DateStr(ParseDate(empowertime[1]) + days_to_add)

\* the test that takes any parsable date for an authorization
is_authorized_any_date(auth, today_dt) ==
    /\ auth # <<>>
    /\ Len(auth[1]) > 0
    /\ CanParseDate(auth[1])

\* the test `auth_dt >= today_dt` of login, query, cleanup and the sweep,
\* with an absent or unparsable date counting as not authorized
IsAuthorized(auth, today_dt) ==
    /\ auth # <<>>
    /\ Len(auth[1]) > 0
    /\ CanParseDate(auth[1])
    /\ ParseDate(auth[1]) >= today_dt

\* a test that takes the date of today for a date that has passed
auth_expired_on_or_before(auth, today_dt) == auth # <<>> /\ Len(auth[1]) > 0 /\ CanParseDate(auth[1]) /\ ParseDate(auth[1]) <= today_dt

\* the else branch of `auth_dt >= today_dt` in the scheduled check: the date
\* is there, strptime accepts it and it has passed
auth_expired(auth, today_dt) == auth # <<>> /\ Len(auth[1]) > 0 /\ CanParseDate(auth[1]) /\ ParseDate(auth[1]) < today_dt

\* vip_status of the manage listing and of the account details, by kind
vip_status(auth_date, today_dt) ==
    IF auth_date = <<>> \/ Len(auth_date[1]) = 0 THEN "unauthorized"
    ELSE IF ~CanParseDate(auth_date[1]) THEN "invalid"
    ELSE IF ParseDate(auth_date[1]) < today_dt THEN "expired"
    ELSE "valid"

(***************************************************************************)
(* Outcomes that are not successes.  A behaviour draws at most MaxFailures *)
(* of them for its panel and vendor calls.                                 *)
(***************************************************************************)
MaxFailures == 1

Failed(ok) == IF ok THEN 0 ELSE 1

FailedResp(resp) == IF resp = "ok" THEN 0 ELSE 1

FailedOc(oc) == Failed(oc.find) + Failed(oc.write) + Failed(oc.recheck)

(***************************************************************************)
(* State shared by the specifications                                      *)
(***************************************************************************)
\* the date the model starts on
Day0 == DaysFromCivil(2026, 11, 1)

NoProbe == [op |-> "none"]

NoUse == [commands |-> 0, sweeps |-> 0, failures |-> 0]

\* the loop of a batch authorization before it starts
IdleBatch ==
    [users |-> <<>>, user |-> <<>>, accounts |-> <<>>, processed |-> {}, months |-> 0,
     call |-> <<>>]

IdleConv ==
    [pc |-> "idle", phone |-> <<>>, user_accounts |-> <<>>, existing |-> <<>>,
     accounts |-> <<>>, selected_account_id |-> <<>>, selected_token |-> <<>>,
     selected_auth_date |-> <<>>, next_action |-> "none", admin_action |-> "none",
     target_user_id |-> <<>>, target_accounts |-> <<>>, selected_account_index |-> 0,
     batch |-> IdleBatch]

IdleSweep ==
    [pc |-> "idle", users |-> <<>>, user |-> <<>>, accounts |-> <<>>,
     checked |-> {}, all_envs |-> <<>>, today_dt |-> 0, del |-> <<>>]

\* the rest of a step in which every write of the JSON file completes and
\* the panel's answers are given as outcomes of the calls: an outcome stands
\* for the token exchange of the call as well as for its request
Quiet ==
    /\ data_file' = File(plugin_data')
    /\ UNCHANGED <<ql_client, now>>

\* the file, the panel client and the clock when the plugin has been loaded
\* from the document data
Loaded(data) ==
    /\ data_file = File(data)
    /\ ql_client = NewClient
    /\ now = 0

(***************************************************************************)
(* SpecFind: get_env_by_remark_and_name on every short list of variables   *)
(***************************************************************************)
MaxList == 3

\* a remark that names account A1 and no phone, as an operator of the panel
\* may have written it
AccountRemark == <<"<zhang>", "<hao>", ":">> \o A1

FindRemarks ==
    { <<>>,
      Remarks(P1, U1, DateStr(Day0)),
      Remarks(P2, U2, DateStr(Day0)),
      AccountRemark,
      Remarks(P1, U1, DateStr(Day0)) \o AccountRemark }

FindShapes == [name : {osname, "other"}, remarks : FindRemarks]

\* the lists of at most MaxList variables, ids in list order
FindLists ==
    UNION { { [i \in 1..n |-> [id |-> i, name |-> f[i].name, value |-> quote(T1),
                               remarks |-> f[i].remarks]] : f \in [1..n -> FindShapes] }
            : n \in 0..MaxList }

FindArgs ==
    { [account |-> A1, phone |-> P1], [account |-> A1, phone |-> <<>>],
      [account |-> A2, phone |-> P2], [account |-> A1, phone |-> P2] }

InitFind ==
    /\ plugin_data = EmptyData
    /\ Loaded(EmptyData)
    /\ envs \in FindLists
    /\ next_id = Len(envs) + 1
    /\ today = Day0
    /\ conv = [u \in Users |-> IdleConv]
    /\ used = NoUse
    /\ sweep = IdleSweep
    /\ \E a \in FindArgs : probe = [op |-> "find_args", account |-> a.account, phone |-> a.phone]

FindStep ==
    /\ probe.op = "find_args"
    /\ probe' = [op |-> "find", account |-> probe.account, phone |-> probe.phone,
                 result |-> get_env_by_remark_and_name(get_envs(envs, TRUE), osname,
                                                       probe.account, probe.phone)]
    /\ UNCHANGED <<plugin_data, envs, next_id, today, conv, sweep, used>>

NextFind == FindStep /\ Quiet

SpecFind == InitFind /\ [][NextFind]_vars

\* positions of the list whose variable has the configured name and a remark
\* containing the account id
AccountMatches(list, account) ==
    {i \in 1..Len(list) : list[i].name = osname /\ Contains(account, list[i].remarks)}

\* positions whose variable has the configured name and a remark containing
\* the phone tag, and not the account id
PhoneOnlyMatches(list, account, phone) ==
    {i \in 1..Len(list) : /\ list[i].name = osname
                          /\ Len(phone) > 0
                          /\ Contains(PhoneTag(phone), list[i].remarks)
                          /\ ~Contains(account, list[i].remarks)}

\* C7: the lookup returns a variable with the configured name whose remark
\* contains the account id whenever the list holds one, wherever the
\* phone-only matches stand; it returns a phone-only match only when the list
\* holds no account-id match.
C7_AccountMatchWins ==
    probe.op = "find" =>
        /\ AccountMatches(envs, probe.account) # {} =>
              /\ probe.result # <<>>
              /\ probe.result[1].name = osname
              /\ Contains(probe.account, probe.result[1].remarks)
        /\ (probe.result # <<>> /\ ~Contains(probe.account, probe.result[1].remarks)) =>
              /\ AccountMatches(envs, probe.account) = {}
              /\ \E i \in PhoneOnlyMatches(envs, probe.account, probe.phone) :
                    probe.result[1] = envs[i]

C7_Witness ==
    /\ probe.op = "find"
    /\ \E i, j, k \in 1..Len(envs) :
          /\ i < j /\ j < k
          /\ i \in PhoneOnlyMatches(envs, probe.account, probe.phone)
          /\ k \in PhoneOnlyMatches(envs, probe.account, probe.phone)
          /\ AccountMatches(envs, probe.account) = {j}
          /\ probe.result = <<envs[j]>>

\* C8 as claimed: with no account-id match and several phone matches the
\* lookup returns the first phone match in list order.
C8_FirstPhoneMatch ==
    (/\ probe.op = "find"
     /\ AccountMatches(envs, probe.account) = {}
     /\ Cardinality(PhoneOnlyMatches(envs, probe.account, probe.phone)) >= 2) =>
        \E i \in PhoneOnlyMatches(envs, probe.account, probe.phone) :
           /\ probe.result = <<envs[i]>>
           /\ \A j \in PhoneOnlyMatches(envs, probe.account, probe.phone) : i <= j

\* C8 amended: with no account-id match and several phone matches the
\* lookup returns the last phone match in list order.
C8_LastPhoneMatch ==
    (/\ probe.op = "find"
     /\ AccountMatches(envs, probe.account) = {}
     /\ Cardinality(PhoneOnlyMatches(envs, probe.account, probe.phone)) >= 2) =>
        \E i \in PhoneOnlyMatches(envs, probe.account, probe.phone) :
           /\ probe.result = <<envs[i]>>
           /\ \A j \in PhoneOnlyMatches(envs, probe.account, probe.phone) : j <= i

C8_Witness ==
    /\ probe.op = "find"
    /\ AccountMatches(envs, probe.account) = {}
    /\ Cardinality(PhoneOnlyMatches(envs, probe.account, probe.phone)) >= 2
    /\ probe.result = <<envs[Len(envs)]>>
    /\ probe.result # <<envs[1]>>

(***************************************************************************)
(* SpecEmpower: empower on stored dates around today                       *)
(***************************************************************************)
MaxMonths == 3

MaxSpan == 5

\* a day before a leap day as well, so that 30*N days cross 29 February
EmpowerDays == {Day0, DaysFromCivil(2028, 2, 20)}

\* texts strptime rejects: a month 13, a day 30 of February, and no date
BadDates ==
    { <<"2", "0", "2", "6", "-", "1", "3", "-", "0", "1">>,
      <<"2", "0", "2", "7", "-", "0", "2", "-", "3", "0">>,
      <<"n", "o", "n", "e">> }

StoredDates(day) ==
    {<<>>, <<<<>>>>} \cup {<<b>> : b \in BadDates}
    \cup {<<DateStr(day + k)>> : k \in (0 - MaxSpan)..MaxSpan}

InitEmpower ==
    /\ plugin_data = EmptyData
    /\ Loaded(EmptyData)
    /\ envs = <<>>
    /\ next_id = 1
    /\ today \in EmpowerDays
    /\ conv = [u \in Users |-> IdleConv]
    /\ used = NoUse
    /\ sweep = IdleSweep
    /\ \E st \in StoredDates(today), n \in 1..MaxMonths :
          probe = [op |-> "empower_args", stored |-> st, months |-> n]

EmpowerStep ==
    /\ probe.op = "empower_args"
    /\ probe' = [op |-> "empower", stored |-> probe.stored, months |-> probe.months,
                 result |-> empower(probe.stored, probe.months, today)]
    /\ UNCHANGED <<plugin_data, envs, next_id, today, conv, sweep, used>>

NextEmpower == EmpowerStep /\ Quiet

SpecEmpower == InitEmpower /\ [][NextEmpower]_vars

\* C9: for N >= 1 empower gives the stored date plus 30*N days when the
\* stored date is unexpired (on or after today), and today plus 30*N days
\* when it is expired, absent or unparsable.
C9_EmpowerAdds30N ==
    probe.op = "empower" =>
        IF IsAuthorized(probe.stored, today)
        THEN probe.result = DateStr(ParseDate(probe.stored[1]) + 30 * probe.months)
        ELSE probe.result = DateStr(today + 30 * probe.months)

C9_Witness ==
    /\ probe.op = "empower"
    /\ probe.stored # <<>>
    /\ CanParseDate(probe.stored[1])
    /\ ParseDate(probe.stored[1]) < today
    /\ probe.months = 2
    /\ probe.result = DateStr(today + 60)
    /\ probe.result # DateStr(ParseDate(probe.stored[1]) + 60)

(***************************************************************************)
(* SpecExpiry: the tests of expiry that the operations make, and empower,  *)
(* on one stored date and one day                                          *)
(***************************************************************************)
ExpiryStep ==
    /\ probe.op = "empower_args"
    /\ probe' = [op |-> "expiry", stored |-> probe.stored, months |-> probe.months,
                 login |-> IsAuthorized(probe.stored, today),
                 manage |-> vip_status(probe.stored, today),
                 query |-> IsAuthorized(probe.stored, today),
                 cleanup |-> ~IsAuthorized(probe.stored, today),
                 sweep |-> auth_expired(probe.stored, today),
                 result |-> empower(probe.stored, probe.months, today)]
    /\ UNCHANGED <<plugin_data, envs, next_id, today, conv, sweep, used>>

NextExpiry == ExpiryStep /\ Quiet

SpecExpiry == InitEmpower /\ [][NextExpiry]_vars

(***************************************************************************)
(* SpecUpsert: add_or_update_env called again and again on one panel       *)
(***************************************************************************)
UpsertDates == {DateStr(Day0 + 30), DateStr(Day0 + 60)}

InitUpsert ==
    /\ plugin_data = EmptyData
    /\ Loaded(EmptyData)
    /\ envs = <<>>
    /\ next_id = 1
    /\ today = Day0
    /\ conv = [u \in Users |-> IdleConv]
    /\ used = NoUse
    /\ sweep = IdleSweep
    /\ probe = NoProbe

\* one call add_or_update_env(osname, token, account, phone, U1, auth_date);
\* raced says that another writer creates the same variable while the call
\* is under way, which only a call whose add fails comes to see.
\* probe.twice says that the call repeats the call before it, with the same
\* account, phone and token, every panel call of both having succeeded
UpsertCall(phone, token, auth_date, oc, raced) ==
    LET account == VendorAccount(phone)
        late == IF raced
                THEN <<[name |-> osname, value |-> quote(token),
                        remarks |-> Remarks(phone, U1, auth_date)]>>
                ELSE <<>>
        r == add_or_update_env(envs, next_id, osname, token, account, phone, U1,
                               auth_date, oc, late)
        args == [account |-> account, phone |-> phone, value |-> token]
    IN /\ UpsertAllowed(envs, next_id, osname, account, phone, oc)
       /\ r.nid <= MaxEnvId + 1
       /\ raced => Len(r.calls) = 3
       /\ envs' = r.panel
       /\ next_id' = r.nid
       /\ probe' = [op |-> "upsert", args |-> args, ok |-> oc = AllOk, ret |-> r.ret,
                    remarks |-> Remarks(phone, U1, auth_date),
                    twice |-> /\ probe.op = "upsert"
                              /\ probe.args = args
                              /\ probe.ok
                              /\ oc = AllOk,
                    oc |-> oc, raced |-> raced, calls |-> r.calls]
       /\ UNCHANGED <<plugin_data, today, conv, sweep, used>>

NextUpsert ==
    \E phone \in Phones, token \in Tokens, auth_date \in UpsertDates,
       oc \in {o \in Outcomes : FailedOc(o) <= MaxFailures} :
        \E raced \in (IF oc.write THEN {FALSE} ELSE BOOLEAN) :
            UpsertCall(phone, token, auth_date, oc, raced) /\ Quiet

SpecUpsert == InitUpsert /\ [][NextUpsert]_vars

(***************************************************************************)
(* SpecRecheck: add_or_update_env called again and again for one phone,    *)
(* any of its panel calls failing, several in one call among them          *)
(***************************************************************************)
NextRecheck ==
    \E token \in Tokens, auth_date \in UpsertDates, oc \in Outcomes :
        \E raced \in (IF oc.write THEN {FALSE} ELSE BOOLEAN) :
            UpsertCall(P1, token, auth_date, oc, raced) /\ Quiet

SpecRecheck == InitUpsert /\ [][NextRecheck]_vars

\* the panel variables of the configured name that the lookup would take for
\* the account or the phone
MatchingEnvs(list, account, phone) ==
    {i \in 1..Len(list) : /\ list[i].name = osname
                          /\ \/ Contains(account, list[i].remarks)
                             \/ Contains(PhoneTag(phone), list[i].remarks)}

\* C1: after two calls of add_or_update_env with the same name, account,
\* phone and token, all panel calls succeeding, exactly one panel variable
\* matches the account/phone, and it carries the remark of the second call.
C1_UpsertIdempotent ==
    (probe.op = "upsert" /\ probe.twice) =>
        /\ Cardinality(MatchingEnvs(envs, probe.args.account, probe.args.phone)) = 1
        /\ \A i \in MatchingEnvs(envs, probe.args.account, probe.args.phone) :
              envs[i].remarks = probe.remarks /\ envs[i].value = quote(probe.args.value)

\* two calls for account A2 and phone P2, every panel call succeeding, after
\* which two variables carry the tag of P2: the first call took the variable
\* of another account, whose phone contains the digits of A2, for its own
C1_Diverges ==
    /\ probe.op = "upsert"
    /\ probe.twice
    /\ probe.args.account = A2
    /\ Cardinality({i \in 1..Len(envs) : Contains(PhoneTag(P2), envs[i].remarks)}) = 2
    /\ \A i \in 1..Len(envs) : ~Contains(PhoneTag(P1), envs[i].remarks)

C14_RemarkEncodesAccount ==
    (probe.op = "upsert" /\ probe.ret /\ Len(probe.calls) = 2) =>
        /\ Contains(probe.args.account, probe.remarks)
        /\ Contains(probe.args.phone, probe.remarks)
        /\ Contains(<<"<gun>">> \o <<"<yong>", "<hu>", ":">> \o U1 \o <<"<gun>">>, probe.remarks)
        /\ \E d \in UpsertDates : Contains(d \o <<"<gun>">>, probe.remarks)
        /\ LET hit == get_env_by_remark_and_name(get_envs(envs, TRUE), osname,
                                                 probe.args.account, <<>>)
           IN hit # <<>> /\ hit[1].remarks = probe.remarks

\* a variable written for account A1, every panel call succeeding, that a
\* lookup by the account id alone does not find: the remark holds the phone,
\* the chat user and the date, and not the account id
C14_Diverges ==
    /\ probe.op = "upsert"
    /\ probe.ok
    /\ probe.ret
    /\ probe.args.account = A1
    /\ \E i \in 1..Len(envs) : envs[i].remarks = probe.remarks
    /\ ~Contains(A1, probe.remarks)
    /\ get_env_by_remark_and_name(get_envs(envs, TRUE), osname, A1, <<>>) = <<>>

(***************************************************************************)
(* Spec: the plugin.  matcher.state is kept per session; conv is indexed by *)
(* the session, which in Spec is the private chat of each user and bears   *)
(* the user's id, so that each chat user has at most one pending           *)
(* conversation.  The handlers of login and manage take the session s and  *)
(* the user id u (event.get_user_id()) apart.  A handler runs as one step; *)
(* the sweep runs account by account and the conversations' steps may fall *)
(* between its steps.  The Qinglong client is configured (ql_client is not *)
(* None).                                                                  *)
(***************************************************************************)
\* the days on which anything happens, counted from Day0
DayOffsets == {0, 31}

\* no authorization is granted beyond this many days after Day0
MaxAuthDays == 61

\* the chat commands received and the scheduled runs started in a behaviour
MaxCommands == 2

MaxSweeps == 1

\* the step draws n outcomes that are not successes
Fail(n) ==
    /\ used.failures + n <= MaxFailures
    /\ used' = [used EXCEPT !.failures = @ + n]

PhoneInputs == Phones \cup {<<"q">>, <<"1", "2", "3">>}

CodeInputs == {<<"1", "2", "3", "4">>, <<"q">>, <<"1", "2">>}

MenuInputs == {<<"1">>, <<"2">>, <<"q">>, <<"x">>, <<"9">>}

ConfirmInputs == {<<"1">>, <<"0">>, <<"q">>, <<"x">>, <<"y">>, <<"n">>}

\* what a login of user_id on phone followed by a grant until auth_date
\* leaves in the store: the writes of handle_login_code and
\* handle_manage_confirm
StoreWith(data, user_id, account, phone, token, auth_date) ==
    LET d1 == bucket_set(data, "mobiles", account, phone)
        d2 == bucket_set(d1, "tokens", account, token)
        d3 == bucket_set(d2, "users", user_id,
                         Dedup(Append(UserAccounts(data, user_id), account)))
    IN bucket_set(d3, "auths", account, auth_date)

\* the JSON file and the panel as earlier runs of the plugin left them: load_data
\* reads the file when the module is imported.  Nothing; one authorized
\* account with its variable; two accounts of one user, granted in turn.
Persisted ==
    LET d30 == DateStr(Day0 + 30)
        d60 == DateStr(Day0 + 60)
        one == [data |-> StoreWith(EmptyData, U1, A1, P1, T1, d30),
                panel |-> add_env(<<>>, 1, osname, quote(T1), Remarks(P1, U1, d30), TRUE),
                nid |-> 2]
        two == [data |-> StoreWith(StoreWith(EmptyData, U1, A2, P2, T1, d30),
                                   U1, A1, P1, T1, d60),
                panel |-> add_env(add_env(<<>>, 1, osname, quote(T1), Remarks(P2, U1, d30), TRUE),
                                  2, osname, quote(T1), Remarks(P1, U1, d60), TRUE),
                nid |-> 3]
    IN {[data |-> EmptyData, panel |-> <<>>, nid |-> 1], one, two}

\* the inputs of the handlers: the text of the message and the outcomes of
\* the panel and vendor calls.  A call that the text keeps the handler from
\* making has no outcome to draw: its outcome is written as a success.
LoginPhoneInputs ==
    {i \in [text : PhoneInputs, list_ok : BOOLEAN, del_ok : BOOLEAN, sms : {"ok", "fail"}] :
        /\ Failed(i.list_ok) + Failed(i.del_ok) + FailedResp(i.sms) <= MaxFailures
        /\ i.text \notin Phones => (i.list_ok /\ i.del_ok /\ i.sms = "ok")}

LoginCodeInputs ==
    {i \in [text : CodeInputs, reg : Responses, token : Tokens, ver : Responses,
            oc : Outcomes] :
        /\ FailedResp(i.reg) + FailedResp(i.ver) + FailedOc(i.oc) <= MaxFailures
        /\ (~isdigit(i.text) \/ Len(i.text) # 4) => i.reg = "ok"
        /\ (~isdigit(i.text) \/ Len(i.text) # 4 \/ i.reg # "ok") => i.ver = "ok"
        /\ (~isdigit(i.text) \/ Len(i.text) # 4 \/ i.reg # "ok" \/ i.ver # "ok") =>
              (i.token = T1 /\ i.oc = AllOk)}

ManageConfirmInputs ==
    {i \in [text : ConfirmInputs, oc : Outcomes, list_ok : BOOLEAN, del_ok : BOOLEAN] :
        /\ FailedOc(i.oc) + Failed(i.list_ok) + Failed(i.del_ok) <= MaxFailures
        /\ i.text # <<"1">> => i.oc = AllOk
        /\ i.text # <<"y">> => (i.list_ok /\ i.del_ok)}

Init ==
    /\ \E s \in Persisted :
          /\ Loaded(s.data)
          /\ plugin_data = load_data(data_file)
          /\ envs = s.panel
          /\ next_id = s.nid
    /\ today = Day0
    /\ conv = [u \in Users |-> IdleConv]
    /\ used = NoUse
    /\ sweep = IdleSweep
    /\ probe = NoProbe

\* the clock reaches a later day
Tick ==
    /\ \E o \in DayOffsets : Day0 + o > today /\ today' = Day0 + o
    /\ probe' = NoProbe
    /\ UNCHANGED <<plugin_data, envs, next_id, conv, sweep, used>>

\* ids of the variables of list that a deletion for account takes: the
\* configured name and the account id somewhere in the remark
IdsFor(list, account) ==
    LET hit == SelectSeq(list, LAMBDA e : e.name = osname /\ Contains(account, e.remarks))
    IN [i \in 1..Len(hit) |-> hit[i].id]

\* get_envs, then delete_envs of the variables found for account: the panel
\* afterwards.  Nothing is deleted when the listing fails or is empty.
DeleteFor(panel, account, list_ok, del_ok) ==
    LET got == get_envs(panel, list_ok)
    IN IF got = <<>> \/ Len(got[1]) = 0 THEN panel
       ELSE delete_envs(panel, IdsFor(got[1], account), del_ok)

\* a finish that leaves the prompt pending
finish_keeping_prompt(st) == st

\* matcher.finish: the conversation ends and matcher.state is dropped
finish(st) == IdleConv

\* matcher.reject: the handler is run again on the user's next message
reject(st) == st

\* what a turn at a prompt was: the prompt, the user and the text received,
\* the vendor and panel calls the handler made, in order, those of them that
\* failed, whether the handler wrote to the store, and the kind of its last
\* message: "cancel", "reprompt" (matcher.reject), "failure", "success",
\* "prompt" (the next input is asked for), "progress" (a loop is announced)
\* or "none" (the handler raised)
Turn(prompt, u, text, calls, failed, wrote, reply) ==
    [op |-> "turn", prompt |-> prompt, user |-> u, text |-> text, calls |-> calls,
     failed |-> failed, wrote |-> wrote, reply |-> reply]

\* the probe of a step: the turn when turns are watched, else other
Seen(watch, turn, other) == IF watch THEN turn ELSE other

\* the panel calls of that deletion, in order: delete_envs is called when
\* the listing came back with variables of the account
DeleteCalls(panel, account, list_ok) ==
    LET got == get_envs(panel, list_ok)
    IN IF got = <<>> \/ Len(got[1]) = 0 \/ Len(IdsFor(got[1], account)) = 0
       THEN <<"get_envs">>
       ELSE <<"get_envs", "delete_envs">>

\* those of the calls that failed
DeleteFailed(panel, account, list_ok, del_ok) ==
    (IF list_ok THEN {} ELSE {"get_envs"})
    \cup (IF Len(DeleteCalls(panel, account, list_ok)) = 2 /\ ~del_ok
          THEN {"delete_envs"} ELSE {})

\* handle_login_start
handle_login_start(s, u) ==
    /\ conv[s].pc = "idle"
    /\ conv' = [conv EXCEPT ![s] = [IdleConv EXCEPT !.pc = "login_phone"]]
    /\ probe' = NoProbe
    /\ UNCHANGED <<plugin_data, envs, next_id, today, sweep>>
    /\ used.commands < MaxCommands
    /\ used' = [used EXCEPT !.commands = @ + 1]

\* the first account of the list whose stored phone is phone, if any
BoundAccount(data, user_accounts, phone) ==
    LET hit == {i \in 1..Len(user_accounts) :
                   bucket_get(data, "mobiles", user_accounts[i]) = <<phone>>}
    IN IF hit = {} THEN <<>>
       ELSE <<user_accounts[CHOOSE i \in hit : \A j \in hit : i <= j]>>

\* handle_login_phone
handle_login_phone(s, u, watch) ==
    /\ conv[s].pc = "login_phone"
    /\ \E i \in LoginPhoneInputs :
          LET text == i.text
              list_ok == i.list_ok
              del_ok == i.del_ok
              sms == i.sms
          IN
          /\ Fail(Failed(list_ok) + Failed(del_ok) + FailedResp(sms))
          /\ UNCHANGED <<next_id, today, sweep>>
          /\ LET phone == strip(text)
             IN IF lower(phone) = <<"q">>
                THEN /\ conv' = [conv EXCEPT ![s] = finish(@)]
                     /\ probe' = Seen(watch, Turn("login_phone", u, text, <<>>, {}, FALSE,
                                                  "cancel"), NoProbe)
                     /\ UNCHANGED <<plugin_data, envs>>
                ELSE IF ~isdigit(phone) \/ Len(phone) # 11
                THEN /\ conv' = [conv EXCEPT ![s] = reject(@)]
                     /\ probe' = Seen(watch, Turn("login_phone", u, text, <<>>, {}, FALSE,
                                                  "reprompt"), NoProbe)
                     /\ UNCHANGED <<plugin_data, envs>>
                ELSE LET user_accounts == UserAccounts(plugin_data, u)
                         acc == BoundAccount(plugin_data, user_accounts, phone)
                         existing == IF acc = <<>> THEN <<>>
                                     ELSE <<[account_id |-> acc[1],
                                             auth |-> bucket_get(plugin_data, "auths", acc[1])]>>
                         left == IF acc = <<>> THEN user_accounts
                                 ELSE RemoveFirst(user_accounts, acc[1])
                         data1 == IF acc = <<>> THEN plugin_data
                                  ELSE bucket_del(bucket_del(plugin_data, "mobiles", acc[1]),
                                                  "tokens", acc[1])
                         panel1 == IF acc = <<>> THEN envs
                                   ELSE DeleteFor(envs, acc[1], list_ok, del_ok)
                         calls == (IF acc = <<>> THEN <<>>
                                   ELSE DeleteCalls(envs, acc[1], list_ok))
                                  \o <<"send_sms_code">>
                         failed == (IF acc = <<>> THEN {}
                                    ELSE DeleteFailed(envs, acc[1], list_ok, del_ok))
                                   \cup (IF send_sms_code(sms) THEN {} ELSE {"send_sms_code"})
                     IN /\ plugin_data' = data1
                        /\ envs' = panel1
                        /\ conv' = [conv EXCEPT ![s] =
                              IF send_sms_code(sms)
                              THEN [IdleConv EXCEPT !.pc = "login_code", !.phone = phone,
                                                    !.user_accounts = left,
                                                    !.existing = existing]
                              ELSE finish(@)]
                        /\ probe' = Seen(watch,
                                         Turn("login_phone", u, text, calls, failed, acc # <<>>,
                                              IF send_sms_code(sms) THEN "prompt" ELSE "failure"),
                                         NoProbe)

\* the list that a login appends the account to whether or not it is there
login_accounts_appending(user_accounts, new_account) ==
    Append(user_accounts, new_account)

\* the account list handle_login_code writes for the user: the account is
\* appended when it is not in the list, and the list is deduplicated
LoginAccounts(user_accounts, new_account) ==
    Dedup(IF InSeq(new_account, user_accounts) THEN user_accounts
          ELSE Append(user_accounts, new_account))

\* the ids user/info may answer for a phone: the one id it has answered
\* for the phone so far, or any id, the vendor having issued a new one
Stable == [phone \in Phones |-> {VendorAccount(phone)}]

Reissued == [phone \in Phones |-> Accounts]

\* handle_login_code; issued[phone] are the ids user/info may answer
handle_login_code(s, u, watch, issued) ==
    /\ conv[s].pc = "login_code"
    /\ \E i \in LoginCodeInputs, vendor_account \in issued[conv[s].phone] :
          LET text == i.text
              reg == i.reg
              token == i.token
              ver == i.ver
              oc == i.oc
          IN
          /\ Fail(FailedResp(reg) + FailedResp(ver) + FailedOc(oc))
          /\ UNCHANGED <<today, sweep>>
          /\ LET code == strip(text)
                 st == conv[s]
             IN IF lower(code) = <<"q">>
                THEN /\ conv' = [conv EXCEPT ![s] = finish(@)]
                     /\ probe' = Seen(watch, Turn("login_code", u, text, <<>>, {}, FALSE,
                                                  "cancel"), NoProbe)
                     /\ UNCHANGED <<plugin_data, envs, next_id>>
                ELSE IF ~isdigit(code) \/ Len(code) # 4
                THEN /\ conv' = [conv EXCEPT ![s] = reject(@)]
                     /\ probe' = Seen(watch, Turn("login_code", u, text, <<>>, {}, FALSE,
                                                  "reprompt"), NoProbe)
                     /\ UNCHANGED <<plugin_data, envs, next_id>>
                ELSE LET login_result == login_with_sms(st.phone, vendor_account, reg, token,
                                                        ver)
                         seen == [op |-> "login_code", user |-> u, phone |-> st.phone,
                                  reg |-> reg, ver |-> ver, existing |-> st.existing,
                                  listed |-> InSeq(vendor_account, st.user_accounts)]
                     IN IF login_result.raised \/ login_result.val = <<>>
                        THEN /\ conv' = [conv EXCEPT ![s] = finish(@)]
                             /\ probe' = Seen(watch,
                                    Turn("login_code", u, text, <<"login_with_sms">>,
                                         {"login_with_sms"}, FALSE,
                                         IF login_result.raised THEN "none" ELSE "failure"),
                                    seen @@
                                    [ret |-> IF login_result.raised THEN "raised" ELSE "absent",
                                     account |-> <<>>, token |-> <<>>, oc |-> <<>>])
                             /\ UNCHANGED <<plugin_data, envs, next_id>>
                        ELSE LET new_phone == login_result.val[1].phone
                                 new_account == login_result.val[1].account
                                 new_token == login_result.val[1].token
                                 d1 == bucket_set(plugin_data, "mobiles", new_account, new_phone)
                                 d2 == bucket_set(d1, "tokens", new_account, new_token)
                                 moved == st.existing # <<>> /\ st.existing[1].auth # <<>>
                                          /\ Len(st.existing[1].auth[1]) > 0
                                 new_auth_date == IF moved THEN st.existing[1].auth
                                                  ELSE bucket_get(d2, "auths", new_account)
                                 d3 == IF moved
                                       THEN bucket_set(d2, "auths", new_account, new_auth_date[1])
                                       ELSE d2
                                 d4 == bucket_set(d3, "users", u,
                                                  LoginAccounts(st.user_accounts, new_account))
                                 is_authorized == IsAuthorized(new_auth_date, today)
                                 r == IF is_authorized
                                      THEN add_or_update_env(envs, next_id, osname, new_token,
                                                             new_account, new_phone, u,
                                                             new_auth_date[1], oc, <<>>)
                                      ELSE [panel |-> envs, nid |-> next_id, ret |-> FALSE,
                                            calls |-> <<>>]
                             IN /\ is_authorized =>
                                      UpsertAllowed(envs, next_id, osname, new_account, new_phone, oc)
                                /\ plugin_data' = d4
                                /\ envs' = r.panel
                                /\ next_id' = r.nid
                                /\ conv' = [conv EXCEPT ![s] = finish(@)]
                                /\ probe' = Seen(watch,
                                       Turn("login_code", u, text,
                                            IF is_authorized
                                            THEN <<"login_with_sms", "add_or_update_env">>
                                            ELSE <<"login_with_sms">>,
                                            IF is_authorized /\ ~r.ret
                                            THEN {"add_or_update_env"} ELSE {},
                                            TRUE, "success"),
                                       seen @@ [ret |-> "result", account |-> <<new_account>>,
                                                token |-> <<new_token>>,
                                                oc |-> IF is_authorized THEN <<oc>> ELSE <<>>])

\* handle_manage_start
handle_manage_start(s, u) ==
    /\ conv[s].pc = "idle"
    /\ probe' = NoProbe
    /\ UNCHANGED <<envs, next_id, today, sweep>>
    /\ used.commands < MaxCommands
    /\ used' = [used EXCEPT !.commands = @ + 1]
    /\ LET accounts == Dedup(UserAccounts(plugin_data, u))
       IN IF Len(accounts) = 0
          THEN UNCHANGED <<plugin_data, conv>>
          ELSE /\ plugin_data' = bucket_set(plugin_data, "users", u, accounts)
               /\ conv' = [conv EXCEPT ![s] =
                              [IdleConv EXCEPT !.pc = "manage_choice", !.accounts = accounts]]

\* handle_manage_choice
handle_manage_choice(s, u, watch) ==
    /\ conv[s].pc = "manage_choice"
    /\ \E text \in MenuInputs, ver \in Responses :
          /\ Fail(FailedResp(ver))
          /\ UNCHANGED <<plugin_data, envs, next_id, today, sweep>>
          /\ LET choice == strip(text)
                 st == conv[s]
             IN IF lower(choice) = <<"q">>
                THEN /\ conv' = [conv EXCEPT ![s] = finish(@)]
                     /\ probe' = Seen(watch, Turn("manage_choice", u, text, <<>>, {}, FALSE,
                                                  "cancel"), NoProbe)
                ELSE IF ~CanParseInt(choice)
                        \/ ~(1 <= ParseInt(choice) /\ ParseInt(choice) <= Len(st.accounts))
                THEN /\ conv' = [conv EXCEPT ![s] = reject(@)]
                     /\ probe' = Seen(watch, Turn("manage_choice", u, text, <<>>, {}, FALSE,
                                                  "reprompt"), NoProbe)
                ELSE LET account_id == st.accounts[ParseInt(choice)]
                         token == bucket_get(plugin_data, "tokens", account_id)
                         auth_date == bucket_get(plugin_data, "auths", account_id)
                         verify_result == verify_token(ver, <<>>, account_id)
                     IN IF token = <<>>
                        THEN /\ conv' = [conv EXCEPT ![s] = finish(@)]
                             /\ probe' = Seen(watch, Turn("manage_choice", u, text, <<>>, {},
                                                          FALSE, "failure"), NoProbe)
                        ELSE IF verify_result.raised
                        THEN /\ conv' = [conv EXCEPT ![s] = finish(@)]
                             /\ probe' = Seen(watch, Turn("manage_choice", u, text,
                                                          <<"verify_token">>, {"verify_token"},
                                                          FALSE, "none"), NoProbe)
                        ELSE /\ conv' = [conv EXCEPT ![s] =
                                         [st EXCEPT !.pc = "manage_action",
                                                    !.selected_account_id = account_id,
                                                    !.selected_token = token,
                                                    !.selected_auth_date = auth_date]]
                             /\ probe' = Seen(watch, Turn("manage_choice", u, text,
                                                          <<"verify_token">>,
                                                          IF verify_result.val = <<>>
                                                          THEN {"verify_token"} ELSE {},
                                                          FALSE, "prompt"), NoProbe)

\* handle_manage_action
handle_manage_action(s, u, text, watch) ==
    /\ conv[s].pc = "manage_action"
    /\ UNCHANGED <<plugin_data, envs, next_id, today, sweep, used>>
    /\ LET action == strip(text)
       IN IF lower(action) = <<"q">>
          THEN /\ conv' = [conv EXCEPT ![s] = finish(@)]
               /\ probe' = Seen(watch, Turn("manage_action", u, text, <<>>, {}, FALSE,
                                            "cancel"), NoProbe)
          ELSE IF action = <<"1">>
          THEN /\ conv' = [conv EXCEPT ![s].pc = "manage_confirm",
                                       ![s].next_action = "authorize"]
               /\ probe' = Seen(watch, Turn("manage_action", u, text, <<>>, {}, FALSE,
                                            "prompt"), NoProbe)
          ELSE IF action = <<"2">>
          THEN /\ conv' = [conv EXCEPT ![s].pc = "manage_confirm",
                                       ![s].next_action = "delete_confirm"]
               /\ probe' = Seen(watch, Turn("manage_action", u, text, <<>>, {}, FALSE,
                                            "prompt"), NoProbe)
          ELSE /\ conv' = [conv EXCEPT ![s] = reject(@)]
               /\ probe' = Seen(watch, Turn("manage_action", u, text, <<>>, {}, FALSE,
                                            "reprompt"), NoProbe)

\* the write of a user's list that keeps the entry when the list is empty
store_accounts_keeping_entry(data, user_id, accounts) ==
    bucket_set(data, "users", user_id, accounts)

\* the write of a user's list after accounts were taken from it, in
\* handle_manage_confirm and handle_clean_confirm: an empty list removes the
\* user's entry
StoreAccounts(data, user_id, accounts) ==
    IF Len(accounts) = 0 THEN bucket_del(data, "users", user_id)
    ELSE bucket_set(data, "users", user_id, accounts)

\* handle_manage_confirm
handle_manage_confirm(s, u, watch) ==
    /\ conv[s].pc = "manage_confirm"
    /\ \E i \in ManageConfirmInputs :
          LET text == i.text
              oc == i.oc
              list_ok == i.list_ok
              del_ok == i.del_ok
          IN
          /\ Fail(FailedOc(oc) + Failed(list_ok) + Failed(del_ok))
          /\ UNCHANGED <<today, sweep>>
          /\ LET confirm == lower(strip(text))
                 st == conv[s]
                 account_id == st.selected_account_id
             IN IF st.next_action = "authorize"
                THEN IF confirm = <<"q">>
                     THEN /\ conv' = [conv EXCEPT ![s] = finish(@)]
                          /\ probe' = Seen(watch, Turn("manage_confirm", u, text, <<>>, {},
                                                       FALSE, "cancel"), NoProbe)
                          /\ UNCHANGED <<plugin_data, envs, next_id>>
                     ELSE IF ~CanParseInt(confirm)
                             \/ ParseInt(confirm) <= 0 \/ ParseInt(confirm) > 999
                     THEN /\ conv' = [conv EXCEPT ![s] = reject(@)]
                          /\ probe' = Seen(watch, Turn("manage_confirm", u, text, <<>>, {},
                                                       FALSE, "reprompt"), NoProbe)
                          /\ UNCHANGED <<plugin_data, envs, next_id>>
                     ELSE LET new_auth_date == empower(st.selected_auth_date, ParseInt(confirm), today)
                              d1 == bucket_set(plugin_data, "auths", account_id, new_auth_date)
                              phone == bucket_get(d1, "mobiles", account_id)
                              r == IF phone # <<>> /\ st.selected_token # <<>>
                                   THEN add_or_update_env(envs, next_id, osname,
                                                          st.selected_token[1], account_id,
                                                          phone[1], u, new_auth_date, oc, <<>>)
                                   ELSE [panel |-> envs, nid |-> next_id, ret |-> FALSE,
                                         calls |-> <<>>]
                          IN /\ ParseDate(new_auth_date) <= Day0 + MaxAuthDays
                             /\ (phone # <<>> /\ st.selected_token # <<>>) =>
                                   UpsertAllowed(envs, next_id, osname, account_id, phone[1], oc)
                             /\ plugin_data' = d1
                             /\ envs' = r.panel
                             /\ next_id' = r.nid
                             /\ conv' = [conv EXCEPT ![s] = finish(@)]
                             /\ probe' = Seen(watch,
                                    Turn("manage_confirm", u, text,
                                         IF phone # <<>> /\ st.selected_token # <<>>
                                         THEN <<"add_or_update_env">> ELSE <<>>,
                                         IF phone # <<>> /\ st.selected_token # <<>> /\ ~r.ret
                                         THEN {"add_or_update_env"} ELSE {},
                                         TRUE, "success"),
                                    NoProbe)
                ELSE IF confirm = <<"y">>
                     THEN IF InSeq(account_id, st.accounts)
                          THEN LET accounts == RemoveFirst(st.accounts, account_id)
                                   d1 == StoreAccounts(plugin_data, u, accounts)
                                   d2 == bucket_del(bucket_del(bucket_del(d1, "tokens", account_id),
                                                               "mobiles", account_id),
                                                    "auths", account_id)
                               IN /\ plugin_data' = d2
                                  /\ envs' = DeleteFor(envs, account_id, list_ok, del_ok)
                                  /\ conv' = [conv EXCEPT ![s] = finish(@)]
                                  /\ probe' = Seen(watch,
                                         Turn("manage_confirm", u, text,
                                              DeleteCalls(envs, account_id, list_ok),
                                              DeleteFailed(envs, account_id, list_ok, del_ok),
                                              TRUE, "success"),
                                         [op |-> "manage_delete", user |-> u,
                                          account |-> account_id])
                                  /\ UNCHANGED next_id
                          ELSE /\ conv' = [conv EXCEPT ![s] = finish(@)]
                               /\ probe' = Seen(watch, Turn("manage_confirm", u, text, <<>>, {},
                                                            FALSE, "failure"), NoProbe)
                               /\ UNCHANGED <<plugin_data, envs, next_id>>
                     ELSE IF confirm \in {<<"n">>, <<"q">>}
                     THEN /\ conv' = [conv EXCEPT ![s] = finish(@)]
                          /\ probe' = Seen(watch, Turn("manage_confirm", u, text, <<>>, {},
                                                       FALSE, "cancel"), NoProbe)
                          /\ UNCHANGED <<plugin_data, envs, next_id>>
                     ELSE /\ conv' = [conv EXCEPT ![s] = reject(@)]
                          /\ probe' = Seen(watch, Turn("manage_confirm", u, text, <<>>, {},
                                                       FALSE, "reprompt"), NoProbe)
                          /\ UNCHANGED <<plugin_data, envs, next_id>>

\* scheduled_check up to its loop: the user ids, the date and one listing of
\* the panel, taken once
scheduled_check(list_ok) ==
    /\ sweep.pc = "idle"
    /\ sweep' = [pc |-> "run", users |-> bucket_all_keys(plugin_data), user |-> <<>>,
                 accounts |-> <<>>, checked |-> {},
                 all_envs |-> get_envs(envs, list_ok), today_dt |-> today, del |-> <<>>]
    /\ probe' = NoProbe
    /\ UNCHANGED <<plugin_data, envs, next_id, today, conv>>
    /\ used.sweeps < MaxSweeps
    /\ used.failures + Failed(list_ok) <= MaxFailures
    /\ used' = [used EXCEPT !.sweeps = @ + 1, !.failures = @ + Failed(list_ok)]

\* the outer loop of scheduled_check: the next user's account list
sweep_user ==
    /\ sweep.pc = "run"
    /\ Len(sweep.accounts) = 0
    /\ Len(sweep.users) > 0
    /\ sweep' = [sweep EXCEPT !.user = Head(sweep.users),
                              !.users = Tail(sweep.users),
                              !.accounts = Dedup(UserAccounts(plugin_data, Head(sweep.users)))]
    /\ probe' = NoProbe
    /\ UNCHANGED <<plugin_data, envs, next_id, today, conv, used>>

\* the accounts the run has not reached: the rest of the current list and the
\* lists of the users still to come
Pending(rest, users, checked) ==
    {a \in Accounts :
        /\ a \notin checked
        /\ \/ InSeq(a, rest)
           \/ \E i \in 1..Len(users) : InSeq(a, UserAccounts(plugin_data, users[i]))}

\* a test that takes no account for checked
never_checked(account_id, checked_accounts) == FALSE

\* `if account_id in checked_accounts: continue`
AlreadyChecked(account_id, checked_accounts) == account_id \in checked_accounts

\* the inner loop of scheduled_check on one account.  ver is the vendor's
\* answer to verify_token, del_ok the outcome of delete_envs.  probe records
\* what was done for the account: notified counts the calls of
\* send_push_notification, del_ids are the ids passed to delete_envs.
sweep_account(ver, del_ok) ==
    /\ sweep.pc = "run"
    /\ Len(sweep.accounts) > 0
    /\ Fail(FailedResp(ver) + Failed(del_ok))
    /\ UNCHANGED <<plugin_data, next_id, today, conv>>
    /\ LET account_id == Head(sweep.accounts)
           rest == Tail(sweep.accounts)
           token == bucket_get(plugin_data, "tokens", account_id)
           auth_date == bucket_get(plugin_data, "auths", account_id)
           phone == bucket_get(plugin_data, "mobiles", account_id)
           verify_result == verify_token(ver, IF phone = <<>> THEN <<>> ELSE phone[1],
                                         account_id)
           ids_to_delete == IF sweep.all_envs = <<>> THEN <<>>
                            ELSE IdsFor(sweep.all_envs[1], account_id)
           expired == auth_expired(auth_date, sweep.today_dt)
           seen == [op |-> "sweep_account", account |-> account_id, user |-> sweep.user,
                    token |-> token, auth |-> auth_date, phone |-> phone, ver |-> ver,
                    listed |-> sweep.all_envs # <<>>, del_ok |-> del_ok,
                    today_dt |-> sweep.today_dt, notified |-> 0, del_ids |-> <<>>]
           removed == delete_envs(envs, ids_to_delete, del_ok)
       IN IF AlreadyChecked(account_id, sweep.checked)
          THEN /\ sweep' = [sweep EXCEPT !.accounts = rest]
               /\ probe' = NoProbe
               /\ UNCHANGED envs
          ELSE IF token = <<>>
          THEN /\ sweep' = [sweep EXCEPT !.accounts = rest,
                                         !.checked = @ \cup {account_id}]
               /\ probe' = [seen EXCEPT !.notified = 1, !.ver = "none"]
               /\ UNCHANGED envs
          ELSE IF verify_result.raised
          THEN /\ sweep' = IdleSweep
               /\ probe' = [op |-> "sweep_end", status |-> "raised",
                            failed |-> <<account_id>>,
                            pending |-> Pending(rest, sweep.users,
                                                sweep.checked \cup {account_id})]
               /\ UNCHANGED envs
          ELSE IF verify_result.val = <<>> \/ expired
          THEN /\ sweep' = [sweep EXCEPT !.accounts = rest,
                                         !.checked = @ \cup {account_id}]
               /\ envs' = removed
               /\ probe' = [seen EXCEPT !.notified = 1, !.del_ids = ids_to_delete]
          ELSE /\ sweep' = [sweep EXCEPT !.accounts = rest,
                                         !.checked = @ \cup {account_id}]
               /\ probe' = seen
               /\ UNCHANGED envs

\* the inner loop of scheduled_check on one account up to its call of
\* delete_envs: the token and the date are read, verify_token and
\* send_push_notification are awaited, and the ids found in all_envs are about
\* to be passed to delete_envs.  sweep.del keeps what the call was decided on.
sweep_verify(ver) ==
    /\ sweep.pc = "run"
    /\ Len(sweep.accounts) > 0
    /\ Fail(FailedResp(ver))
    /\ UNCHANGED <<plugin_data, envs, next_id, today, conv>>
    /\ LET account_id == Head(sweep.accounts)
           token == bucket_get(plugin_data, "tokens", account_id)
           auth_date == bucket_get(plugin_data, "auths", account_id)
           phone == bucket_get(plugin_data, "mobiles", account_id)
           verify_result == verify_token(ver, IF phone = <<>> THEN <<>> ELSE phone[1],
                                         account_id)
           ids_to_delete == IF sweep.all_envs = <<>> THEN <<>>
                            ELSE IdsFor(sweep.all_envs[1], account_id)
           expired == auth_expired(auth_date, sweep.today_dt)
       IN /\ ~AlreadyChecked(account_id, sweep.checked)
          /\ token # <<>>
          /\ ~verify_result.raised
          /\ verify_result.val = <<>> \/ expired
          /\ Len(ids_to_delete) > 0
          /\ sweep' = [sweep EXCEPT !.pc = "delete",
                                    !.accounts = Tail(sweep.accounts),
                                    !.checked = @ \cup {account_id},
                                    !.del = <<[ids |-> ids_to_delete, account |-> account_id,
                                               token |-> token[1],
                                               invalid |-> verify_result.val = <<>>]>>]
          /\ probe' = NoProbe

\* the call of delete_envs the check had come to takes effect on the panel;
\* probe records the variables the panel has lost
sweep_delete(del_ok) ==
    /\ sweep.pc = "delete"
    /\ Fail(Failed(del_ok))
    /\ envs' = delete_envs(envs, sweep.del[1].ids, del_ok)
    /\ sweep' = [sweep EXCEPT !.pc = "run", !.del = <<>>]
    /\ probe' = [op |-> "sweep_delete", account |-> sweep.del[1].account,
                 token |-> sweep.del[1].token, invalid |-> sweep.del[1].invalid,
                 gone |-> SelectSeq(envs, LAMBDA e : \A j \in 1..Len(envs') : envs'[j].id # e.id)]
    /\ UNCHANGED <<plugin_data, next_id, today, conv>>

\* scheduled_check returns after the last account of the last user
sweep_end ==
    /\ sweep.pc = "run"
    /\ Len(sweep.accounts) = 0
    /\ Len(sweep.users) = 0
    /\ sweep' = IdleSweep
    /\ probe' = [op |-> "sweep_end", status |-> "done",
                 failed |-> <<>>, pending |-> Pending(<<>>, <<>>, sweep.checked)]
    /\ UNCHANGED <<plugin_data, envs, next_id, today, conv, used>>

\* the chat users of the SUPERUSER permission
Superusers == {U1}

AdminMenuInputs == {<<"1">>, <<"2">>, <<"3">>, <<"q">>, <<"x">>}

AdminInputs == {<<"1">>, <<"0">>, <<"q">>, <<"x">>, U1}

\* the loop of handle_query over the user's accounts: the panel afterwards,
\* the accounts whose info came back absent, and whether get_account_info
\* raised, which ends the handler.  info gives the vendor's answer for each
\* account.
RECURSIVE QueryAccounts(_, _, _, _, _, _)
QueryAccounts(data, panel, accounts, info, list_ok, del_ok) ==
    IF Len(accounts) = 0 THEN [panel |-> panel, invalid |-> {}, raised |-> FALSE]
    ELSE LET account == Head(accounts)
             token == bucket_get(data, "tokens", account)
             r == get_account_info(info[account])
         IN IF token = <<>>
            THEN QueryAccounts(data, panel, Tail(accounts), info, list_ok, del_ok)
            ELSE IF r.raised
            THEN [panel |-> panel, invalid |-> {}, raised |-> TRUE]
            ELSE IF r.val = <<>>
            THEN LET rest == QueryAccounts(data, DeleteFor(panel, account, list_ok, del_ok),
                                           Tail(accounts), info, list_ok, del_ok)
                 IN [rest EXCEPT !.invalid = @ \cup {account}]
            ELSE QueryAccounts(data, panel, Tail(accounts), info, list_ok, del_ok)

\* handle_query
handle_query(u) ==
    /\ conv[u].pc = "idle"
    /\ used.commands < MaxCommands
    /\ UNCHANGED <<next_id, today, conv, sweep>>
    /\ \E info \in [Accounts -> Responses], list_ok \in BOOLEAN, del_ok \in BOOLEAN :
          LET n == Cardinality({a \in Accounts : info[a] # "ok"})
                   + Failed(list_ok) + Failed(del_ok)
              accounts == Dedup(UserAccounts(plugin_data, u))
          IN /\ used.failures + n <= MaxFailures
             /\ (~list_ok \/ ~del_ok) => \E a \in Accounts : info[a] \in {"fail", "nofields"}
             /\ used' = [used EXCEPT !.commands = @ + 1, !.failures = @ + n]
             /\ IF Len(accounts) = 0
                THEN /\ probe' = NoProbe
                     /\ UNCHANGED <<plugin_data, envs>>
                ELSE LET d1 == bucket_set(plugin_data, "users", u, accounts)
                         r == QueryAccounts(d1, envs, accounts, info, list_ok, del_ok)
                     IN /\ plugin_data' = d1
                        /\ envs' = r.panel
                        /\ probe' = [op |-> "query", user |-> u, invalid |-> r.invalid,
                                     raised |-> r.raised]

\* handle_auth_admin_start
handle_auth_admin_start(u) ==
    /\ u \in Superusers
    /\ conv[u].pc = "idle"
    /\ conv' = [conv EXCEPT ![u] = [IdleConv EXCEPT !.pc = "admin_choice"]]
    /\ probe' = NoProbe
    /\ UNCHANGED <<plugin_data, envs, next_id, today, sweep>>
    /\ used.commands < MaxCommands
    /\ used' = [used EXCEPT !.commands = @ + 1]

\* handle_auth_admin_choice
handle_auth_admin_choice(u, text, watch) ==
    /\ conv[u].pc = "admin_choice"
    /\ UNCHANGED <<plugin_data, envs, next_id, today, sweep, used>>
    /\ LET choice == strip(text)
           said(reply) == Seen(watch, Turn("admin_choice", u, text, <<>>, {}, FALSE, reply),
                               NoProbe)
       IN IF lower(choice) = <<"q">>
          THEN /\ conv' = [conv EXCEPT ![u] = finish(@)]
               /\ probe' = said("cancel")
          ELSE IF choice = <<"1">>
          THEN /\ conv' = [conv EXCEPT ![u].pc = "admin_input",
                                       ![u].admin_action = "auth_all"]
               /\ probe' = said("prompt")
          ELSE IF choice = <<"2">>
          THEN /\ conv' = [conv EXCEPT ![u].pc = "admin_input",
                                       ![u].admin_action = "auth_single_user_select"]
               /\ probe' = said("prompt")
          ELSE IF choice = <<"3">>
          THEN /\ conv' = [conv EXCEPT ![u].pc = "admin_input",
                                       ![u].admin_action = "modify_time_select_type"]
               /\ probe' = said("prompt")
          ELSE /\ conv' = [conv EXCEPT ![u] = reject(@)]
               /\ probe' = said("reprompt")

\* the loop of the batch authorization from where batch stands up to the
\* next account it calls add_or_update_env for, if any: the accounts
\* already processed and those without a token are passed over, an account
\* without a phone gets its date and no call.  batch.call is the call the
\* loop has come to, absent when the loop has come to its end.
RECURSIVE AuthAdvance(_, _, _)
AuthAdvance(data, batch, today_dt) ==
    IF Len(batch.accounts) = 0
    THEN IF Len(batch.users) = 0
         THEN [data |-> data, batch |-> [batch EXCEPT !.call = <<>>]]
         ELSE AuthAdvance(data,
                          [batch EXCEPT !.user = Head(batch.users),
                                        !.users = Tail(batch.users),
                                        !.accounts = Dedup(UserAccounts(data, Head(batch.users)))],
                          today_dt)
    ELSE LET account_id == Head(batch.accounts)
             rest == [batch EXCEPT !.accounts = Tail(batch.accounts),
                                   !.processed = @ \cup {account_id}]
             token == bucket_get(data, "tokens", account_id)
             current_auth == bucket_get(data, "auths", account_id)
             new_auth_date == empower(current_auth, batch.months, today_dt)
             d1 == bucket_set(data, "auths", account_id, new_auth_date)
             phone == bucket_get(d1, "mobiles", account_id)
         IN IF account_id \in batch.processed
            THEN AuthAdvance(data, [batch EXCEPT !.accounts = Tail(batch.accounts)], today_dt)
            ELSE IF token = <<>>
            THEN AuthAdvance(data, rest, today_dt)
            ELSE IF phone = <<>> \/ Len(phone[1]) = 0
            THEN AuthAdvance(d1, rest, today_dt)
            ELSE [data |-> d1,
                  batch |-> [rest EXCEPT !.call =
                                <<[user_id |-> batch.user, account_id |-> account_id,
                                   token |-> token[1], phone |-> phone[1],
                                   new_auth_date |-> new_auth_date]>>]]

\* the dates the accounts of the store are authorized to
AuthDays(data) ==
    {ParseDate(data.auths[a]) : a \in {x \in DOMAIN data.auths : CanParseDate(data.auths[x])}}

\* the handler has returned without matcher.finish or matcher.reject: the
\* handlers registered after it run, and with none left the conversation
\* ends and matcher.state is dropped
returned(st, next_pc) ==
    IF next_pc = "none" THEN IdleConv ELSE [st EXCEPT !.pc = next_pc]

\* the store and the panel before the loop of a grant or of an adjustment
\* has written to them
Untouched(data, panel, nid) ==
    [data |-> data, panel |-> panel, nid |-> nid, calls |-> <<>>, ok |-> TRUE, seen |-> {}]

\* the write of new_auth_date for the account, and the call of
\* add_or_update_env that follows it when the account has a token and a phone
WriteDate(r, account_id, user_id, new_auth_date, oc) ==
    LET d1 == bucket_set(r.data, "auths", account_id, new_auth_date)
        token == bucket_get(d1, "tokens", account_id)
        phone == bucket_get(d1, "mobiles", account_id)
    IN IF token # <<>> /\ Len(token[1]) > 0 /\ phone # <<>> /\ Len(phone[1]) > 0
       THEN LET e == add_or_update_env(r.panel, r.nid, osname, token[1], account_id,
                                       phone[1], user_id, new_auth_date, oc, <<>>)
            IN [r EXCEPT !.data = d1, !.panel = e.panel, !.nid = e.nid,
                         !.calls = Append(@, "add_or_update_env"), !.ok = @ /\ e.ret]
       ELSE [r EXCEPT !.data = d1]

\* the loop of auth_single_input_months: an account without a token is
\* skipped, any other gets the date of empower.  Every call of the loop has
\* the outcome oc.
RECURSIVE GrantAccounts(_, _, _, _, _, _)
GrantAccounts(r, accounts, user_id, months, today_dt, oc) ==
    IF Len(accounts) = 0 THEN r
    ELSE LET account_id == Head(accounts)
             token == bucket_get(r.data, "tokens", account_id)
             new_auth_date == empower(bucket_get(r.data, "auths", account_id), months,
                                      today_dt)
         IN IF token = <<>> \/ Len(token[1]) = 0
            THEN GrantAccounts(r, Tail(accounts), user_id, months, today_dt, oc)
            ELSE GrantAccounts(WriteDate(r, account_id, user_id, new_auth_date, oc),
                               Tail(accounts), user_id, months, today_dt, oc)

\* the loop of the day adjustments over the accounts of one user: the date
\* of the account, or today when it has none, moved by days; a text that is
\* no date raises inside the try and the account is left as it is.  skip are
\* the accounts the batch has processed under an earlier user.
RECURSIVE AdjustAccounts(_, _, _, _, _, _, _)
AdjustAccounts(r, accounts, skip, user_id, days, today_dt, oc) ==
    IF Len(accounts) = 0 THEN r
    ELSE LET account_id == Head(accounts)
             current_auth == bucket_get(r.data, "auths", account_id)
             r1 == [r EXCEPT !.seen = @ \cup {account_id}]
         IN IF account_id \in skip
            THEN AdjustAccounts(r, Tail(accounts), skip, user_id, days, today_dt, oc)
            ELSE IF current_auth = <<>> \/ Len(current_auth[1]) = 0
            THEN AdjustAccounts(WriteDate(r1, account_id, user_id, DateStr(today_dt + days),
                                          oc),
                                Tail(accounts), skip, user_id, days, today_dt, oc)
            ELSE IF ~CanParseDate(current_auth[1])
            THEN AdjustAccounts(r1, Tail(accounts), skip, user_id, days, today_dt, oc)
            ELSE AdjustAccounts(WriteDate(r1, account_id, user_id,
                                          DateStr(ParseDate(current_auth[1]) + days), oc),
                                Tail(accounts), skip, user_id, days, today_dt, oc)

\* the loop of modify_time_all_input_days over the users
RECURSIVE AdjustUsers(_, _, _, _, _, _)
AdjustUsers(r, users, processed_accounts, days, today_dt, oc) ==
    IF Len(users) = 0 THEN r
    ELSE LET user_id == Head(users)
             accounts == Dedup(UserAccounts(r.data, user_id))
             r1 == AdjustAccounts(r, accounts, processed_accounts, user_id, days, today_dt,
                                  oc)
         IN AdjustUsers(r1, Tail(users), r1.seen, days, today_dt, oc)

\* handle_auth_admin_input, the last handler of its matcher.  The steps
\* that ask for a further input (the target user, the account, the kind of
\* change) send their prompt and return.  The batch authorization sends a
\* message and then runs its loop (auth_all_loop).
handle_auth_admin_input(u, text, watch) ==
    /\ conv[u].pc = "admin_input"
    /\ UNCHANGED <<today, sweep>>
    /\ LET input_value == strip(text)
           st == conv[u]
           admin_action == st.admin_action
           said(reply) == Seen(watch, Turn("admin_input", u, text, <<>>, {}, FALSE, reply),
                               NoProbe)
           same == UNCHANGED <<plugin_data, envs, next_id, used>>
           accounts_to_process ==
               IF st.selected_account_index = 0 THEN st.target_accounts
               ELSE <<st.target_accounts[st.selected_account_index]>>
           applied(r, oc) ==
               /\ Fail(IF Len(r.calls) = 0 THEN 0 ELSE FailedOc(oc))
               /\ r.nid <= MaxEnvId + 1
               /\ \A d \in AuthDays(r.data) : d <= Day0 + MaxAuthDays
               /\ plugin_data' = r.data
               /\ envs' = r.panel
               /\ next_id' = r.nid
               /\ conv' = [conv EXCEPT ![u] = finish(@)]
               /\ probe' = Seen(watch,
                                Turn("admin_input", u, text, r.calls,
                                     IF r.ok THEN {} ELSE {"add_or_update_env"},
                                     r.data # plugin_data, "success"),
                                NoProbe)
       IN IF lower(input_value) = <<"q">>
          THEN /\ conv' = [conv EXCEPT ![u] = finish(@)]
               /\ probe' = said("cancel")
               /\ same
          ELSE IF admin_action = "auth_all"
          THEN IF ~CanParseInt(input_value) \/ ParseInt(input_value) <= 0
               THEN /\ conv' = [conv EXCEPT ![u] = reject(@)]
                    /\ probe' = said("reprompt")
                    /\ same
               ELSE LET all_user_ids == bucket_all_keys(plugin_data)
                    IN IF Len(all_user_ids) = 0
                       THEN /\ conv' = [conv EXCEPT ![u] = finish(@)]
                            /\ probe' = said("failure")
                            /\ same
                       ELSE /\ conv' = [conv EXCEPT ![u].pc = "auth_all_loop",
                                                    ![u].batch =
                                                       [IdleBatch EXCEPT
                                                           !.users = all_user_ids,
                                                           !.months = ParseInt(input_value)]]
                            /\ probe' = said("progress")
                            /\ same
          ELSE IF admin_action \in {"auth_single_user_select", "modify_time_single_user_select"}
          THEN LET accounts == Dedup(UserAccounts(plugin_data, input_value))
               IN IF Len(accounts) = 0
                  THEN /\ conv' = [conv EXCEPT ![u] = finish(@)]
                       /\ probe' = said("failure")
                       /\ same
                  ELSE /\ conv' = [conv EXCEPT ![u] =
                              returned([@ EXCEPT
                                          !.target_user_id = input_value,
                                          !.target_accounts = accounts,
                                          !.admin_action =
                                             IF admin_action = "auth_single_user_select"
                                             THEN "auth_single_account_select"
                                             ELSE "modify_time_single_account_select"],
                                       "none")]
                       /\ probe' = said("prompt")
                       /\ same
          ELSE IF admin_action \in {"auth_single_account_select",
                                    "modify_time_single_account_select"}
          THEN IF ~CanParseInt(input_value) \/ ParseInt(input_value) < 0
                  \/ ParseInt(input_value) > Len(st.target_accounts)
               THEN /\ conv' = [conv EXCEPT ![u] = reject(@)]
                    /\ probe' = said("reprompt")
                    /\ same
               ELSE /\ conv' = [conv EXCEPT ![u] =
                           returned([@ EXCEPT
                                       !.selected_account_index = ParseInt(input_value),
                                       !.admin_action =
                                          IF admin_action = "auth_single_account_select"
                                          THEN "auth_single_input_months"
                                          ELSE "modify_time_single_input_days"],
                                    "none")]
                    /\ probe' = said("prompt")
                    /\ same
          ELSE IF admin_action = "auth_single_input_months"
          THEN IF ~CanParseInt(input_value) \/ ParseInt(input_value) <= 0
               THEN /\ conv' = [conv EXCEPT ![u] = reject(@)]
                    /\ probe' = said("reprompt")
                    /\ same
               ELSE \E oc \in Outcomes :
                       applied(GrantAccounts(Untouched(plugin_data, envs, next_id),
                                             accounts_to_process, st.target_user_id,
                                             ParseInt(input_value), today, oc), oc)
          ELSE IF admin_action = "modify_time_select_type"
          THEN IF input_value \in {<<"1">>, <<"2">>}
               THEN /\ conv' = [conv EXCEPT ![u] =
                                   returned([@ EXCEPT !.admin_action =
                                               IF input_value = <<"1">>
                                               THEN "modify_time_all_input_days"
                                               ELSE "modify_time_single_user_select"],
                                            "none")]
                    /\ probe' = said("prompt")
                    /\ same
               ELSE /\ conv' = [conv EXCEPT ![u] = reject(@)]
                    /\ probe' = said("reprompt")
                    /\ same
          ELSE IF admin_action = "modify_time_all_input_days"
          THEN IF ~CanParseInt(input_value)
               THEN /\ conv' = [conv EXCEPT ![u] = reject(@)]
                    /\ probe' = said("reprompt")
                    /\ same
               ELSE IF Len(bucket_all_keys(plugin_data)) = 0
               THEN /\ conv' = [conv EXCEPT ![u] = finish(@)]
                    /\ probe' = said("failure")
                    /\ same
               ELSE \E oc \in Outcomes :
                       applied(AdjustUsers(Untouched(plugin_data, envs, next_id),
                                           bucket_all_keys(plugin_data), {},
                                           ParseInt(input_value), today, oc), oc)
          ELSE IF admin_action = "modify_time_single_input_days"
          THEN IF ~CanParseInt(input_value)
               THEN /\ conv' = [conv EXCEPT ![u] = reject(@)]
                    /\ probe' = said("reprompt")
                    /\ same
               ELSE \E oc \in Outcomes :
                       applied(AdjustAccounts(Untouched(plugin_data, envs, next_id),
                                              accounts_to_process, {}, st.target_user_id,
                                              ParseInt(input_value), today, oc), oc)
          ELSE /\ conv' = [conv EXCEPT ![u] = finish(@)]
               /\ probe' = said("failure")
               /\ same

\* the loop of the batch authorization in handle_auth_admin_input between
\* two of its awaits: the call of add_or_update_env it had come to takes
\* effect on the panel, and the loop goes on to its next call, where it has
\* written that account's date, or to its end
auth_all_loop(u, oc) ==
    /\ conv[u].pc = "auth_all_loop"
    /\ UNCHANGED <<today, sweep>>
    /\ probe' = NoProbe
    /\ \E batch \in {conv[u].batch} : \E a \in {AuthAdvance(plugin_data, batch, today)} :
          /\ IF batch.call = <<>>
             THEN /\ oc = AllOk
                  /\ UNCHANGED <<envs, next_id, used>>
             ELSE LET c == batch.call[1]
                      r == add_or_update_env(envs, next_id, osname, c.token, c.account_id,
                                             c.phone, c.user_id, c.new_auth_date, oc, <<>>)
                  IN /\ Fail(FailedOc(oc))
                     /\ UpsertAllowed(envs, next_id, osname, c.account_id, c.phone, oc)
                     /\ envs' = r.panel
                     /\ next_id' = r.nid
          /\ \A d \in AuthDays(a.data) : d <= Day0 + MaxAuthDays
          /\ plugin_data' = a.data
          /\ conv' = [conv EXCEPT ![u] = IF a.batch.call = <<>> THEN IdleConv
                                         ELSE [@ EXCEPT !.batch = a.batch]]

\* handle_clean_start
handle_clean_start(u) ==
    /\ u \in Superusers
    /\ conv[u].pc = "idle"
    /\ conv' = [conv EXCEPT ![u] = [IdleConv EXCEPT !.pc = "clean_confirm"]]
    /\ probe' = NoProbe
    /\ UNCHANGED <<plugin_data, envs, next_id, today, sweep>>
    /\ used.commands < MaxCommands
    /\ used' = [used EXCEPT !.commands = @ + 1]

\* the local data of an account that a cleanup keeps the token of
clean_account_keeping_token(data, account_id) ==
    bucket_del(bucket_del(data, "mobiles", account_id), "auths", account_id)

\* the local data of an account that a cleanup keeps the phone of
clean_account_keeping_phone(data, account_id) ==
    bucket_del(bucket_del(data, "tokens", account_id), "auths", account_id)

\* the deletion of an account's local data in handle_clean_confirm
CleanAccount(data, account_id) ==
    bucket_del(bucket_del(bucket_del(data, "tokens", account_id), "mobiles", account_id),
               "auths", account_id)

\* accounts_to_delete_env[account_id] = phone
Marked(marked, account_id, phone) ==
    [a \in DOMAIN marked \cup {account_id} |-> IF a = account_id THEN phone ELSE marked[a]]

\* the inner loop of handle_clean_confirm over one user's accounts: the
\* store, the accounts marked for the panel and the accounts the user keeps
RECURSIVE CleanAccounts(_, _, _, _, _)
CleanAccounts(data, marked, valid_accounts, accounts, today_dt) ==
    IF Len(accounts) = 0
    THEN [data |-> data, marked |-> marked, valid_accounts |-> valid_accounts]
    ELSE LET account_id == Head(accounts)
             auth_date == bucket_get(data, "auths", account_id)
             is_expired == ~IsAuthorized(auth_date, today_dt)
         IN IF is_expired
            THEN CleanAccounts(CleanAccount(data, account_id),
                               Marked(marked, account_id,
                                      bucket_get(data, "mobiles", account_id)),
                               valid_accounts, Tail(accounts), today_dt)
            ELSE CleanAccounts(data, marked, Append(valid_accounts, account_id),
                               Tail(accounts), today_dt)

\* the outer loop of handle_clean_confirm over the users
RECURSIVE CleanUsers(_, _, _, _)
CleanUsers(data, marked, users, today_dt) ==
    IF Len(users) = 0 THEN [data |-> data, marked |-> marked]
    ELSE LET user_id == Head(users)
             r == CleanAccounts(data, marked, <<>>, Dedup(UserAccounts(data, user_id)),
                                today_dt)
         IN CleanUsers(StoreAccounts(r.data, user_id, r.valid_accounts), r.marked,
                       Tail(users), today_dt)

\* ids of the variables of list that the cleanup deletes: the configured
\* name, and in the remark the id of a marked account or the tag of its phone
CleanIds(list, marked) ==
    LET hit == SelectSeq(list, LAMBDA e :
                   /\ e.name = osname
                   /\ \E a \in DOMAIN marked :
                         \/ Contains(a, e.remarks)
                         \/ /\ marked[a] # <<>>
                            /\ Len(marked[a][1]) > 0
                            /\ Contains(PhoneTag(marked[a][1]), e.remarks))
    IN [i \in 1..Len(hit) |-> hit[i].id]

\* handle_clean_confirm
handle_clean_confirm(u, watch) ==
    /\ conv[u].pc = "clean_confirm"
    /\ UNCHANGED <<next_id, today, sweep>>
    /\ conv' = [conv EXCEPT ![u] = finish(@)]
    /\ \E text \in ConfirmInputs, list_ok \in BOOLEAN, del_ok \in BOOLEAN :
          /\ Fail(Failed(list_ok) + Failed(del_ok))
          /\ LET confirm == lower(strip(text))
             IN IF confirm # <<"y">>
                THEN /\ probe' = Seen(watch, Turn("clean_confirm", u, text, <<>>, {}, FALSE,
                                                  "cancel"), NoProbe)
                     /\ UNCHANGED <<plugin_data, envs>>
                ELSE LET r == CleanUsers(plugin_data, EmptyMap,
                                         bucket_all_keys(plugin_data), today)
                         got == get_envs(envs, list_ok)
                         ids == IF DOMAIN r.marked = {} \/ got = <<>> THEN <<>>
                                ELSE CleanIds(got[1], r.marked)
                         calls == IF DOMAIN r.marked = {} THEN <<>>
                                  ELSE IF Len(ids) = 0 THEN <<"get_envs">>
                                  ELSE <<"get_envs", "delete_envs">>
                         failed == (IF DOMAIN r.marked # {} /\ ~list_ok THEN {"get_envs"}
                                    ELSE {})
                                   \cup (IF Len(ids) > 0 /\ ~del_ok THEN {"delete_envs"}
                                         ELSE {})
                     IN /\ plugin_data' = r.data
                        /\ envs' = IF Len(ids) = 0 THEN envs
                                   ELSE delete_envs(envs, ids, del_ok)
                        /\ probe' = Seen(watch,
                                         Turn("clean_confirm", u, text, calls, failed,
                                              Len(bucket_all_keys(plugin_data)) > 0, "success"),
                                         [op |-> "clean", expired |-> DOMAIN r.marked])

Next ==
    \/ Tick /\ Quiet
    \/ \E u \in Users : handle_login_start(u, u) /\ Quiet
    \/ \E u \in Users : handle_login_phone(u, u, FALSE) /\ Quiet
    \/ \E u \in Users : handle_login_code(u, u, FALSE, Stable) /\ Quiet
    \/ \E u \in Users : handle_manage_start(u, u) /\ Quiet
    \/ \E u \in Users : handle_manage_choice(u, u, FALSE) /\ Quiet
    \/ \E u \in Users, text \in MenuInputs : handle_manage_action(u, u, text, FALSE) /\ Quiet
    \/ \E u \in Users : handle_manage_confirm(u, u, FALSE) /\ Quiet
    \/ \E list_ok \in BOOLEAN : scheduled_check(list_ok) /\ Quiet
    \/ sweep_user /\ Quiet
    \/ \E ver \in Responses, del_ok \in BOOLEAN : sweep_account(ver, del_ok) /\ Quiet
    \/ sweep_end /\ Quiet

Spec == Init /\ [][Next]_vars

(***************************************************************************)
(* SpecChat: the chat commands of the users and of the administrator, on   *)
(* one day and the other; the scheduled check, which writes nothing to the *)
(* store, is left out.                                                     *)
(***************************************************************************)
NextChat ==
    \/ Tick /\ Quiet
    \/ \E u \in Users : handle_login_start(u, u) /\ Quiet
    \/ \E u \in Users : handle_login_phone(u, u, FALSE) /\ Quiet
    \/ \E u \in Users : handle_login_code(u, u, FALSE, Stable) /\ Quiet
    \/ \E u \in Users : handle_manage_start(u, u) /\ Quiet
    \/ \E u \in Users : handle_manage_choice(u, u, FALSE) /\ Quiet
    \/ \E u \in Users, text \in MenuInputs : handle_manage_action(u, u, text, FALSE) /\ Quiet
    \/ \E u \in Users : handle_manage_confirm(u, u, FALSE) /\ Quiet
    \/ \E u \in Users : handle_query(u) /\ Quiet
    \/ \E u \in Users : handle_auth_admin_start(u) /\ Quiet
    \/ \E u \in Users, text \in AdminMenuInputs : handle_auth_admin_choice(u, text, FALSE) /\ Quiet
    \/ \E u \in Users, text \in AdminInputs : handle_auth_admin_input(u, text, FALSE) /\ Quiet
    \/ \E u \in Users, oc \in Outcomes : auth_all_loop(u, oc) /\ Quiet
    \/ \E u \in Users : handle_clean_start(u) /\ Quiet
    \/ \E u \in Users : handle_clean_confirm(u, FALSE) /\ Quiet

SpecChat == Init /\ [][NextChat]_vars

(***************************************************************************)
(* SpecTokens: what writes or tests the stored tokens, on one day: login,  *)
(* manage, query, cleanup and the scheduled check                          *)
(***************************************************************************)
NextTokens ==
    \/ \E u \in Users : handle_login_start(u, u) /\ Quiet
    \/ \E u \in Users : handle_login_phone(u, u, FALSE) /\ Quiet
    \/ \E u \in Users : handle_login_code(u, u, FALSE, Stable) /\ Quiet
    \/ \E u \in Users : handle_manage_start(u, u) /\ Quiet
    \/ \E u \in Users : handle_manage_choice(u, u, FALSE) /\ Quiet
    \/ \E u \in Users, text \in MenuInputs : handle_manage_action(u, u, text, FALSE) /\ Quiet
    \/ \E u \in Users : handle_manage_confirm(u, u, FALSE) /\ Quiet
    \/ \E u \in Users : handle_query(u) /\ Quiet
    \/ \E u \in Users : handle_clean_start(u) /\ Quiet
    \/ \E u \in Users : handle_clean_confirm(u, FALSE) /\ Quiet
    \/ \E list_ok \in BOOLEAN : scheduled_check(list_ok) /\ Quiet
    \/ sweep_user /\ Quiet
    \/ \E ver \in Responses, del_ok \in BOOLEAN : sweep_account(ver, del_ok) /\ Quiet
    \/ sweep_end /\ Quiet

SpecTokens == Init /\ [][NextTokens]_vars

(***************************************************************************)
(* SpecLogin: logins on a store in which the account of P1 has one date or *)
(* another, or none, as the JSON file may hold it                          *)
(***************************************************************************)
\* what the auths bucket holds for the account: nothing, an empty text, a
\* text that is no date, a day before today, today, a later day
LoginAuths ==
    {<<>>, <<<<>>>>} \cup {<<b>> : b \in BadDates}
    \cup {<<DateStr(Day0 - 1)>>, <<DateStr(Day0)>>, <<DateStr(Day0 + 30)>>}

\* the store of a user with the account of P1, its date being auth; with
\* bound false the phone and token are gone, as the phone step of a login
\* that was not completed leaves them
LoginStore(auth, bound) ==
    LET d0 == StoreWith(EmptyData, U1, A1, P1, T1, DateStr(Day0))
        d1 == IF auth = <<>> THEN bucket_del(d0, "auths", A1)
              ELSE bucket_set(d0, "auths", A1, auth[1])
    IN IF bound THEN d1
       ELSE bucket_del(bucket_del(d1, "mobiles", A1), "tokens", A1)

\* the panel with a variable written for P1, or with none
LoginPanels ==
    {<<>>, add_env(<<>>, 1, osname, quote(T1), Remarks(P1, U1, DateStr(Day0 + 30)), TRUE)}

InitLogin ==
    /\ \E auth \in LoginAuths, bound \in BOOLEAN, panel \in LoginPanels :
          /\ Loaded(LoginStore(auth, bound))
          /\ plugin_data = load_data(data_file)
          /\ envs = panel
          /\ next_id = Len(panel) + 1
    /\ today = Day0
    /\ conv = [u \in Users |-> IdleConv]
    /\ used = NoUse
    /\ sweep = IdleSweep
    /\ probe = NoProbe

NextLogin ==
    \/ \E u \in Users : handle_login_start(u, u) /\ Quiet
    \/ \E u \in Users : handle_login_phone(u, u, FALSE) /\ Quiet
    \/ \E u \in Users : handle_login_code(u, u, FALSE, Stable) /\ Quiet

SpecLogin == InitLogin /\ [][NextLogin]_vars

(***************************************************************************)
(* SpecAdmin: options 2 and 3 of the authorization command, with an        *)
(* administrator who goes on answering: every handler that is waiting for  *)
(* a message gets one, and a message sent outside a conversation is        *)
(* delivered as well                                                       *)
(***************************************************************************)
\* a message that is no command, from a user in no conversation: no matcher
\* of the plugin takes it
unmatched_message(u, text) ==
    /\ conv[u].pc = "idle"
    /\ probe' = [op |-> "unmatched", user |-> u, text |-> text]
    /\ UNCHANGED <<plugin_data, envs, next_id, today, conv, sweep, used>>

\* the answers to the menu: every one of AdminMenuInputs but option 1
SingleMenuInputs == AdminMenuInputs \ {<<"1">>}

AdminStart == \E u \in Users : handle_auth_admin_start(u) /\ Quiet

AdminChoice ==
    \E u \in Users, text \in SingleMenuInputs : handle_auth_admin_choice(u, text, TRUE) /\ Quiet

AdminInput ==
    \E u \in Users, text \in AdminInputs : handle_auth_admin_input(u, text, TRUE) /\ Quiet

Unmatched == \E u \in Users, text \in AdminInputs : unmatched_message(u, text) /\ Quiet

NextAdmin == AdminStart \/ AdminChoice \/ AdminInput \/ Unmatched

SpecAdmin ==
    /\ Init
    /\ [][NextAdmin]_vars
    /\ WF_vars(AdminChoice)
    /\ WF_vars(AdminInput)
    /\ WF_vars(Unmatched)

(***************************************************************************)
(* SpecRelogin: logins on the stores of SpecLogin, the vendor answering    *)
(* for a phone the id it answered before or another one                    *)
(***************************************************************************)
NextRelogin ==
    \/ \E u \in Users : handle_login_start(u, u) /\ Quiet
    \/ \E u \in Users : handle_login_phone(u, u, FALSE) /\ Quiet
    \/ \E u \in Users : handle_login_code(u, u, FALSE, Reissued) /\ Quiet

SpecRelogin == InitLogin /\ [][NextRelogin]_vars

(***************************************************************************)
(* SpecChats: chat user U1 speaks in two sessions, a private chat and a    *)
(* group chat, and has a conversation pending in each: the session id of a *)
(* group message is not the one of a private message, the user id is the   *)
(* same.  The keys of conv are the two sessions.                           *)
(***************************************************************************)
NextChats ==
    \/ \E s \in Users : handle_login_start(s, U1) /\ Quiet
    \/ \E s \in Users : handle_login_phone(s, U1, FALSE) /\ Quiet
    \/ \E s \in Users : handle_login_code(s, U1, FALSE, Stable) /\ Quiet
    \/ \E s \in Users : handle_manage_start(s, U1) /\ Quiet
    \/ \E s \in Users : handle_manage_choice(s, U1, FALSE) /\ Quiet
    \/ \E s \in Users, text \in MenuInputs : handle_manage_action(s, U1, text, FALSE) /\ Quiet
    \/ \E s \in Users : handle_manage_confirm(s, U1, FALSE) /\ Quiet

SpecChats == Init /\ [][NextChats]_vars

(***************************************************************************)
(* SpecClean: the cleanup command on a store in which each of two accounts *)
(* has one date or another, or none, and is listed by one user, by both or *)
(* by none                                                                 *)
(***************************************************************************)
\* the account lists of the two users
CleanLists == {<<>>, <<A1>>, <<A2>>, <<A1, A2>>}

\* the store with the two lists; a listed account has its phone and token,
\* and the date drawn for it
CleanStore(list1, list2, auth) ==
    LET listed == {a \in Accounts : InSeq(a, list1) \/ InSeq(a, list2)}
        phone == [a \in Accounts |-> IF a = A1 THEN P1 ELSE P2]
        d0 == [EmptyData EXCEPT
                 !.mobiles = [a \in listed |-> phone[a]],
                 !.tokens = [a \in listed |-> T1],
                 !.auths = [a \in {b \in listed : auth[b] # <<>>} |-> auth[a][1]]]
    IN StoreAccounts(StoreAccounts(d0, U1, list1), U2, list2)

InitClean ==
    /\ \E list1 \in CleanLists, list2 \in CleanLists, auth \in [Accounts -> LoginAuths],
          panel \in LoginPanels :
          /\ Loaded(CleanStore(list1, list2, auth))
          /\ plugin_data = load_data(data_file)
          /\ envs = panel
          /\ next_id = Len(panel) + 1
    /\ today = Day0
    /\ conv = [u \in Users |-> IdleConv]
    /\ used = NoUse
    /\ sweep = IdleSweep
    /\ probe = NoProbe

NextClean ==
    \/ Tick /\ Quiet
    \/ \E u \in Users : handle_clean_start(u) /\ Quiet
    \/ \E u \in Users : handle_clean_confirm(u, FALSE) /\ Quiet

SpecClean == InitClean /\ [][NextClean]_vars

(***************************************************************************)
(* SpecSweep: the scheduled check on stores like those of SpecClean, where *)
(* an account may be on the lists of both users, with a cleanup that may   *)
(* run between two of its awaits.  Every call the check awaits returns, so *)
(* its loops go on: weak fairness on their steps.                          *)
(***************************************************************************)
\* what the auths bucket holds for an account: nothing, yesterday, a later
\* day
SweepAuths == {<<>>, <<DateStr(Day0 - 1)>>, <<DateStr(Day0 + 30)>>}

InitSweep ==
    /\ \E list1 \in CleanLists, list2 \in CleanLists, auth \in [Accounts -> SweepAuths] :
          /\ Loaded(CleanStore(list1, list2, auth))
          /\ plugin_data = load_data(data_file)
    /\ envs = add_env(<<>>, 1, osname, quote(T1), Remarks(P1, U1, DateStr(Day0 + 30)), TRUE)
    /\ next_id = 2
    /\ today = Day0
    /\ conv = [u \in Users |-> IdleConv]
    /\ used = NoUse
    /\ sweep = IdleSweep
    /\ probe = NoProbe

SweepStart == \E list_ok \in BOOLEAN : scheduled_check(list_ok) /\ Quiet

SweepUser == sweep_user /\ Quiet

SweepAccount == \E ver \in Responses, del_ok \in BOOLEAN : sweep_account(ver, del_ok) /\ Quiet

SweepEnd == sweep_end /\ Quiet

NextSweep ==
    \/ SweepStart
    \/ SweepUser
    \/ SweepAccount
    \/ SweepEnd
    \/ \E u \in Users : handle_clean_start(u) /\ Quiet
    \/ \E u \in Users : handle_clean_confirm(u, FALSE) /\ Quiet

SpecSweep ==
    /\ InitSweep
    /\ [][NextSweep]_vars
    /\ WF_vars(SweepUser)
    /\ WF_vars(SweepAccount)
    /\ WF_vars(SweepEnd)

(***************************************************************************)
(* SpecGrants: chat user U2 manages the accounts of the store while the    *)
(* administrator runs the authorization menu; the steps of the two         *)
(* conversations, and of the batch loop between its awaits, fall in any    *)
(* order.  An account has no date, yesterday's, or one thirty days ahead.  *)
(***************************************************************************)
InitGrants ==
    /\ \E list2 \in {<<A1>>, <<A1, A2>>}, auth \in [Accounts -> SweepAuths] :
          /\ Loaded(CleanStore(<<>>, list2, auth))
          /\ plugin_data = load_data(data_file)
    /\ envs = <<>>
    /\ next_id = 1
    /\ today = Day0
    /\ conv = [u \in Users |-> IdleConv]
    /\ used = NoUse
    /\ sweep = IdleSweep
    /\ probe = NoProbe

NextGrants ==
    \/ handle_manage_start(U2, U2) /\ Quiet
    \/ handle_manage_choice(U2, U2, TRUE) /\ Quiet
    \/ \E text \in MenuInputs : handle_manage_action(U2, U2, text, TRUE) /\ Quiet
    \/ handle_manage_confirm(U2, U2, TRUE) /\ Quiet
    \/ \E u \in Users : handle_auth_admin_start(u) /\ Quiet
    \/ \E u \in Users, text \in AdminMenuInputs :
          handle_auth_admin_choice(u, text, TRUE) /\ Quiet
    \/ \E u \in Users, text \in AdminInputs : handle_auth_admin_input(u, text, TRUE) /\ Quiet
    \/ \E u \in Users, oc \in Outcomes : auth_all_loop(u, oc) /\ Quiet

SpecGrants == InitGrants /\ [][NextGrants]_vars

(***************************************************************************)
(* SpecRace: the scheduled check and the logins of the chat users, on a    *)
(* store in which the account of the only user has the id A2 and the phone *)
(* P1, so that the account id occurs in the remark of its own variable.    *)
(* The check may be suspended at its call of delete_envs and a login may   *)
(* run to its end meanwhile.                                               *)
(***************************************************************************)
RaceStore(auth) ==
    LET d0 == StoreWith(EmptyData, U1, A2, P1, T1, DateStr(Day0))
    IN IF auth = <<>> THEN bucket_del(d0, "auths", A2)
       ELSE bucket_set(d0, "auths", A2, auth[1])

InitRace ==
    /\ \E auth \in SweepAuths :
          /\ Loaded(RaceStore(auth))
          /\ plugin_data = load_data(data_file)
    /\ envs = add_env(<<>>, 1, osname, quote(T1), Remarks(P1, U1, DateStr(Day0 + 30)), TRUE)
    /\ next_id = 2
    /\ today = Day0
    /\ conv = [u \in Users |-> IdleConv]
    /\ used = NoUse
    /\ sweep = IdleSweep
    /\ probe = NoProbe

NextRace ==
    \/ \E list_ok \in BOOLEAN : scheduled_check(list_ok) /\ Quiet
    \/ sweep_user /\ Quiet
    \/ \E ver \in Responses, del_ok \in BOOLEAN : sweep_account(ver, del_ok) /\ Quiet
    \/ \E ver \in Responses : sweep_verify(ver) /\ Quiet
    \/ \E del_ok \in BOOLEAN : sweep_delete(del_ok) /\ Quiet
    \/ sweep_end /\ Quiet
    \/ \E u \in Users : handle_login_start(u, u) /\ Quiet
    \/ \E u \in Users : handle_login_phone(u, u, FALSE) /\ Quiet
    \/ \E u \in Users : handle_login_code(u, u, FALSE, Reissued) /\ Quiet

SpecRace == InitRace /\ [][NextRace]_vars

(***************************************************************************)
(* SpecTurn: the conversations turn by turn.  probe holds the turn just    *)
(* taken at a prompt: what was received, which calls the handler made and  *)
(* what it answered.                                                       *)
(***************************************************************************)
NextTurn ==
    \/ Tick /\ Quiet
    \/ \E u \in Users : handle_login_start(u, u) /\ Quiet
    \/ \E u \in Users : handle_login_phone(u, u, TRUE) /\ Quiet
    \/ \E u \in Users : handle_login_code(u, u, TRUE, Stable) /\ Quiet
    \/ \E u \in Users : handle_manage_start(u, u) /\ Quiet
    \/ \E u \in Users : handle_manage_choice(u, u, TRUE) /\ Quiet
    \/ \E u \in Users, text \in MenuInputs : handle_manage_action(u, u, text, TRUE) /\ Quiet
    \/ \E u \in Users : handle_manage_confirm(u, u, TRUE) /\ Quiet
    \/ \E u \in Users : handle_auth_admin_start(u) /\ Quiet
    \/ \E u \in Users, text \in AdminMenuInputs :
          handle_auth_admin_choice(u, text, TRUE) /\ Quiet
    \/ \E u \in Users, text \in AdminInputs : handle_auth_admin_input(u, text, TRUE) /\ Quiet
    \/ \E u \in Users, oc \in Outcomes : auth_all_loop(u, oc) /\ Quiet
    \/ \E u \in Users : handle_clean_start(u) /\ Quiet
    \/ \E u \in Users : handle_clean_confirm(u, TRUE) /\ Quiet

SpecTurn == Init /\ [][NextTurn]_vars

(***************************************************************************)
(* SpecInfo: get_account_info on the answers of the vendor to user/balance *)
(* and integralRecord/pageList.  An answer is what _request returns: the   *)
(* envelope's code, and its data when the key is there.  data is an object *)
(* (kind "object") or null; a field of an object is absent or present.     *)
(***************************************************************************)
\* the records a points-record page lists at most
MaxRecords == 2

\* str.startswith
StartsWith(text, prefix) ==
    Len(text) >= Len(prefix) /\ SubSeq(text, 1, Len(prefix)) = prefix

Null == [kind |-> "null"]

\* the data of user/balance: both fields, or neither
BalanceData ==
    {[kind |-> "object", balance |-> <<12>>, integral |-> <<340>>],
     [kind |-> "object", balance |-> <<>>, integral |-> <<>>],
     Null}

BalanceResults ==
    [code : {0, -1}, data : {<<>>} \cup {<<d>> : d \in BalanceData}]

\* receivedTime of a record: none, an empty text, a time of today, the date
\* of today alone, the date of today cut short, a time of the day before
ReceivedTimes(day) ==
    {<<>>, <<<<>>>>,
     <<DateStr(day) \o <<" ", "0", "8", ":", "3", "0">>>>,
     <<DateStr(day)>>,
     <<SubSeq(DateStr(day), 1, 9)>>,
     <<DateStr(day - 1) \o <<" ", "2", "3", ":", "5", "9">>>>}

\* amount of a record: none, a number, a numeral, a text that is no
\* numeral, null
Amounts ==
    {<<>>, <<[kind |-> "int", num |-> 5]>>, <<[kind |-> "int", num |-> 7]>>,
     <<[kind |-> "str", text |-> <<" ", "3">>]>>, <<[kind |-> "str", text |-> <<"n", "a">>]>>,
     <<Null>>}

Records(day) == [receivedTime : ReceivedTimes(day), amount : Amounts]

RecordLists(day) ==
    UNION {[1..n -> Records(day)] : n \in 0..MaxRecords}

IntegralData(day) ==
    {[kind |-> "object", items |-> <<>>], Null}
    \cup {[kind |-> "object", items |-> <<l>>] : l \in RecordLists(day)}

IntegralResults(day) ==
    [code : {0, -1}, data : {<<>>} \cup {<<d>> : d \in IntegralData(day)}]

\* int(item.get('amount', 0)): [raised, skipped, val]; a text that is no
\* numeral raises ValueError, which the loop passes over, null raises
\* TypeError
AmountOf(amount) ==
    IF amount = <<>> THEN [raised |-> FALSE, skipped |-> FALSE, val |-> 0]
    ELSE IF amount[1].kind = "int"
    THEN [raised |-> FALSE, skipped |-> FALSE, val |-> amount[1].num]
    ELSE IF amount[1].kind = "str"
    THEN IF CanParseInt(strip(amount[1].text))
         THEN [raised |-> FALSE, skipped |-> FALSE, val |-> ParseInt(strip(amount[1].text))]
         ELSE [raised |-> FALSE, skipped |-> TRUE, val |-> 0]
    ELSE [raised |-> TRUE, skipped |-> FALSE, val |-> 0]

\* the loop of get_account_info over the records: [raised, sum]
RECURSIVE TodayIntegral(_, _, _)
TodayIntegral(items, current_date_str, today_integral) ==
    IF Len(items) = 0 THEN [raised |-> FALSE, sum |-> today_integral]
    ELSE LET item == Head(items)
             received_time_str == IF item.receivedTime = <<>> THEN <<>>
                                  ELSE item.receivedTime[1]
             a == AmountOf(item.amount)
         IN IF Len(received_time_str) > 0 /\ StartsWith(received_time_str, current_date_str)
            THEN IF a.raised THEN [raised |-> TRUE, sum |-> today_integral]
                 ELSE TodayIntegral(Tail(items), current_date_str, today_integral + a.val)
            ELSE TodayIntegral(Tail(items), current_date_str, today_integral)

\* data.get(field, 0)
FieldOr0(field) == IF field = <<>> THEN 0 ELSE field[1]

\* get_account_info that gives up when the points records cannot be read
get_account_info_all_or_nothing(balance_result, integral_result, current_date_str) ==
    IF ~(balance_result.code = 0 /\ balance_result.data # <<>>)
       \/ ~(integral_result.code = 0 /\ integral_result.data # <<>>)
    THEN [raised |-> FALSE, val |-> <<>>]
    ELSE IF balance_result.data[1].kind # "object" \/ integral_result.data[1].kind # "object"
    THEN [raised |-> TRUE, val |-> <<>>]
    ELSE [raised |-> FALSE,
          val |-> <<[balance |-> FieldOr0(balance_result.data[1].balance),
                     integral |-> FieldOr0(balance_result.data[1].integral),
                     today_integral |-> 0]>>]

\* PangGuaiClient.get_account_info on the two answers: [raised, val], val
\* absent or the dictionary.  The function raises where it calls .get on a
\* data that is no object and where int() is given null.
get_account_info_value(balance_result, integral_result, current_date_str) ==
    IF ~(balance_result.code = 0 /\ balance_result.data # <<>>)
    THEN [raised |-> FALSE, val |-> <<>>]
    ELSE LET balance_data == balance_result.data[1]
             integral_ok == integral_result.code = 0 /\ integral_result.data # <<>>
             items == IF integral_ok /\ integral_result.data[1].kind = "object"
                         /\ integral_result.data[1].items # <<>>
                      THEN integral_result.data[1].items[1]
                      ELSE <<>>
             t == TodayIntegral(items, current_date_str, 0)
         IN IF integral_ok /\ integral_result.data[1].kind # "object"
            THEN [raised |-> TRUE, val |-> <<>>]
            ELSE IF t.raised \/ balance_data.kind # "object"
            THEN [raised |-> TRUE, val |-> <<>>]
            ELSE [raised |-> FALSE,
                  val |-> <<[balance |-> FieldOr0(balance_data.balance),
                             integral |-> FieldOr0(balance_data.integral),
                             today_integral |-> t.sum]>>]

InitInfo ==
    /\ plugin_data = EmptyData
    /\ Loaded(EmptyData)
    /\ envs = <<>>
    /\ next_id = 1
    /\ today = Day0
    /\ conv = [u \in Users |-> IdleConv]
    /\ used = NoUse
    /\ sweep = IdleSweep
    /\ \E b \in BalanceResults, g \in IntegralResults(Day0) :
          probe = [op |-> "get_account_info_args", balance_result |-> b,
                   integral_result |-> g]

InfoStep ==
    /\ probe.op = "get_account_info_args"
    /\ probe' = [op |-> "get_account_info", balance_result |-> probe.balance_result,
                 integral_result |-> probe.integral_result,
                 ret |-> get_account_info_value(probe.balance_result,
                                                probe.integral_result, get_today_str)]
    /\ UNCHANGED <<plugin_data, envs, next_id, today, conv, sweep, used>>

NextInfo == InfoStep /\ Quiet

SpecInfo == InitInfo /\ [][NextInfo]_vars

\* the records of the list whose receivedTime starts with the date
GrantedOn(items, date) ==
    {i \in 1..Len(items) :
        /\ items[i].receivedTime # <<>>
        /\ StartsWith(items[i].receivedTime[1], date)}

\* the amount of a record is a number, given as a number or as a numeral,
\* or is left out, which counts as 0
HasNumber(item) ==
    \/ item.amount = <<>>
    \/ item.amount[1].kind = "int"
    \/ item.amount[1].kind = "str" /\ CanParseInt(strip(item.amount[1].text))

NumberOf(item) ==
    IF item.amount = <<>> THEN 0
    ELSE IF item.amount[1].kind = "int" THEN item.amount[1].num
    ELSE ParseInt(strip(item.amount[1].text))

RECURSIVE SumOf(_, _)
SumOf(items, idx) ==
    IF idx = {} THEN 0
    ELSE LET i == CHOOSE j \in idx : TRUE
         IN NumberOf(items[i]) + SumOf(items, idx \ {i})

MaskPlaces == {"verify_token", "notification", "manage", "query", "admin"}

\* phones of 11 digits, put together from their three parts
MaskPhones ==
    {a \o b \o c :
        a \in {<<"1", "3", "8">>, <<"1", "8", "6">>, <<"1", "9", "9">>},
        b \in {<<"0", "0", "0", "0">>, <<"1", "2", "3", "4">>, <<"9", "8", "7", "6">>},
        c \in {<<"0", "0", "0", "0">>, <<"5", "6", "7", "8">>, <<"4", "3", "2", "1">>}}

\* account[-4:]
Last4(text) == SubSeq(text, IF Len(text) > 4 THEN Len(text) - 3 ELSE 1, Len(text))

\* what a place shows for the account: the masked phone, or, where the
\* stored phone may be missing, the account id instead of it
Shown(place, phone, account) ==
    IF place = "verify_token" THEN display_phone(phone[1])
    ELSE IF phone # <<>> /\ Len(phone[1]) > 0 THEN display_phone(phone[1])
    ELSE IF place = "notification"
    THEN <<"<zhang>", "<hao>", "I", "D", " ">> \o account
    ELSE <<"<zhang>", "<hao>", "I", "D", ":">> \o Slice(account, 0, 4)
         \o <<".", ".", ".">> \o Last4(account)

InitMask ==
    /\ plugin_data = EmptyData
    /\ Loaded(EmptyData)
    /\ envs = <<>>
    /\ next_id = 1
    /\ today = Day0
    /\ conv = [u \in Users |-> IdleConv]
    /\ used = NoUse
    /\ sweep = IdleSweep
    /\ \E phone \in {<<>>} \cup {<<p>> : p \in MaskPhones}, account \in Accounts :
          probe = [op |-> "mask_args", phone |-> phone, account |-> account]

MaskStep(place) ==
    /\ probe.op = "mask_args"
    /\ place = "verify_token" => probe.phone # <<>>
    /\ probe' = [op |-> "mask", place |-> place, phone |-> probe.phone,
                 account |-> probe.account,
                 shown |-> Shown(place, probe.phone, probe.account)]
    /\ UNCHANGED <<plugin_data, envs, next_id, today, conv, sweep, used>>

NextMask == \E place \in MaskPlaces : MaskStep(place) /\ Quiet

SpecMask == InitMask /\ [][NextMask]_vars

\* C24: for every phone of 11 digits, every place that masks a phone shows
\* its first 3 digits, four asterisks and its digits from the 8th on: 11
\* characters, of which exactly the 4th to the 7th are hidden.
C24_MaskHidesFourDigits ==
    (probe.op = "mask" /\ probe.phone # <<>>
     /\ isdigit(probe.phone[1]) /\ Len(probe.phone[1]) = 11) =>
        LET phone == probe.phone[1]
            shown == probe.shown
        IN /\ shown = SubSeq(phone, 1, 3) \o <<"*", "*", "*", "*">> \o SubSeq(phone, 8, 11)
           /\ Len(shown) = 11
           /\ \A i \in 1..11 : IF i \in 4..7 THEN shown[i] = "*" ELSE shown[i] = phone[i]

\* a phone whose hidden digits differ from the digits around them
C24_Witness ==
    /\ probe.op = "mask"
    /\ probe.place = "notification"
    /\ probe.phone = <<<<"1", "8", "6", "9", "8", "7", "6", "4", "3", "2", "1">>>>
    /\ probe.shown = <<"1", "8", "6", "*", "*", "*", "*", "4", "3", "2", "1">>

(***************************************************************************)
(* SpecToken: the panel client's token as time passes, and the panel       *)
(* operations that ask for it.  Here the answer of the panel to every      *)
(* token exchange is an input of its own.  used.commands counts the panel  *)
(* operations called.                                                      *)
(***************************************************************************)
\* the times, in seconds, at which the clock is read
ClockTimes == {0, 300, 600, 85800, 86100}

\* the panel as a login of U1 left it
TokenPanel ==
    add_env(<<>>, 1, osname, quote(T1), Remarks(P1, U1, DateStr(Day0 + 30)), TRUE)

InitToken ==
    /\ plugin_data = EmptyData
    /\ Loaded(EmptyData)
    /\ envs = TokenPanel
    /\ next_id = 2
    /\ today = Day0
    /\ conv = [u \in Users |-> IdleConv]
    /\ used = NoUse
    /\ sweep = IdleSweep
    /\ probe = NoProbe

ClockAdvance ==
    /\ \E t \in ClockTimes : t > now /\ now' = t
    /\ probe' = NoProbe
    /\ UNCHANGED <<plugin_data, envs, next_id, today, conv, sweep, used, data_file,
                   ql_client>>

\* the expiry the panel reported for the token the client holds: line 133
\* stores it less 300 seconds
TokenExpiry(client) == client._token_expires_at + 300

\* one call of _get_token; probe.held says that the client held a token
\* before, probe.left how many seconds before its reported expiry the call
\* is made; probe.resp is the panel's answer to the exchange, "none" when
\* none was made
GetToken(resp) ==
    LET g == _get_token(ql_client, now, resp)
    IN /\ ql_client' = g.client
       /\ probe' = [op |-> "_get_token", held |-> ql_client._token # <<>>,
                    left |-> IF ql_client._token # <<>> THEN TokenExpiry(ql_client) - now
                             ELSE 0,
                    resp |-> IF g.exchanged THEN resp.kind ELSE "none",
                    exchanged |-> g.exchanged, ret |-> g.ret]
       /\ UNCHANGED <<plugin_data, envs, next_id, today, conv, sweep, used, data_file,
                      now>>

PanelOps == {"get_envs", "add_env", "update_env", "delete_envs"}

\* one call of get_envs, add_env, update_env (of variable 1) or delete_envs
\* (of variable 1).  probe lists, for its call of _get_token, whether an
\* exchange was made, the panel's answer to it and whether a token came
\* back; sent counts the authenticated requests, ret is the returned value
PanelCall(op, resp, ok) ==
    LET q == _request(ql_client, now, resp, ok)
        d60 == DateStr(Day0 + 60)
        panel == CASE op = "get_envs" -> envs
                   [] op = "add_env" ->
                        add_env(envs, next_id, osname, quote(T2), Remarks(P2, U2, d60), q.ok)
                   [] op = "update_env" ->
                        update_env(envs, 1, osname, quote(T2), Remarks(P1, U1, d60), q.ok)
                   [] op = "delete_envs" -> delete_envs(envs, <<1>>, q.ok)
        ret == CASE op = "get_envs" ->
                      IF get_envs(envs, q.ok) = <<>> THEN "absent" ELSE "value"
                 [] op = "delete_envs" -> IF q.ok THEN "true" ELSE "false"
                 [] OTHER -> IF q.ok THEN "value" ELSE "absent"
    IN /\ (op = "add_env" /\ q.ok) => next_id <= MaxEnvId
       /\ (op = "update_env" /\ q.ok) => \E i \in 1..Len(envs) : envs[i].id = 1
       /\ used.commands < MaxCommands
       /\ used' = [used EXCEPT !.commands = @ + 1]
       /\ ql_client' = q.client
       /\ envs' = panel
       /\ next_id' = IF Len(panel) > Len(envs) THEN next_id + 1 ELSE next_id
       /\ probe' = [op |-> op, held |-> ql_client._token # <<>>,
                    exchanged |-> <<q.exchanged>>,
                    resp |-> <<IF q.exchanged THEN resp.kind ELSE "none">>,
                    got |-> <<q.token # <<>>>>,
                    sent |-> IF q.sent THEN 1 ELSE 0,
                    ret |-> ret, same |-> panel = envs]
       /\ UNCHANGED <<plugin_data, today, conv, sweep, data_file, now>>

\* the answers the exchanges of one add_or_update_env are drawn from
UpsertResponses ==
    {[kind |-> "ok", token |-> "q1", expiration |-> <<>>],
     [kind |-> "network", token |-> "", expiration |-> <<>>]}

\* one call of add_or_update_env: each of its panel calls asks for the token
\* on its own, the third after time.sleep(1); the clock of the model is read
\* anew at the next step.  The panel answers every request it is sent with
\* code 200.
TokenUpsert(phone, r1, r2, r3) ==
    LET q1 == _request(ql_client, now, r1, TRUE)
        q2 == _request(q1.client, now, r2, TRUE)
        q3 == _request(q2.client, now + 1, r3, TRUE)
        eff == [find |-> q1.ok, write |-> q2.ok, recheck |-> q3.ok]
        account == VendorAccount(phone)
        r == add_or_update_env(envs, next_id, osname, T2, account, phone, U1,
                               DateStr(Day0 + 60), eff, <<>>)
        n == Len(r.calls)
        qs == <<q1, q2, q3>>
    IN /\ UpsertAllowed(envs, next_id, osname, account, phone, eff)
       /\ used.commands < MaxCommands
       /\ used' = [used EXCEPT !.commands = @ + 1]
       /\ ql_client' = qs[n].client
       /\ envs' = r.panel
       /\ next_id' = r.nid
       /\ probe' = [op |-> "add_or_update_env", held |-> ql_client._token # <<>>,
                    exchanged |-> [i \in 1..n |-> qs[i].exchanged],
                    resp |-> [i \in 1..n |->
                                 IF qs[i].exchanged THEN <<r1, r2, r3>>[i].kind ELSE "none"],
                    got |-> [i \in 1..n |-> qs[i].token # <<>>],
                    sent |-> Cardinality({i \in 1..n : qs[i].sent}),
                    ret |-> IF r.ret THEN "true" ELSE "false",
                    same |-> r.panel = envs]
       /\ UNCHANGED <<plugin_data, today, conv, sweep, data_file, now>>

NextToken ==
    \/ ClockAdvance
    \/ \E resp \in TokenResponses : GetToken(resp)
    \/ \E op \in PanelOps, resp \in TokenResponses, ok \in BOOLEAN : PanelCall(op, resp, ok)
    \/ \E phone \in Phones, r1 \in UpsertResponses, r2 \in UpsertResponses,
          r3 \in UpsertResponses : TokenUpsert(phone, r1, r2, r3)

SpecToken == InitToken /\ [][NextToken]_vars

\* C11: _get_token returns the token it holds without an exchange exactly
\* while the time is more than 5 minutes (300 seconds) before the expiry the
\* panel reported for it, 24 hours after the exchange when it reported none;
\* at any later time it makes an exchange.
C11_CachedUntilFiveMinutesBefore ==
    (probe.op = "_get_token" /\ probe.held) =>
        (~probe.exchanged <=> probe.left > 300)

\* a call more than 5 minutes before the reported expiry that makes an
\* exchange: the 300 seconds are taken off twice, when the expiry is stored
\* and when it is compared
C11_Diverges ==
    /\ probe.op = "_get_token"
    /\ probe.held
    /\ probe.left > 300
    /\ probe.left <= 600
    /\ probe.exchanged

\* the value an operation returns when it fails
FailureValue(op) ==
    IF op \in {"delete_envs", "add_or_update_env"} THEN "false" ELSE "absent"

Buckets == {"users", "tokens", "mobiles", "auths"}

\* the calls made: a token or a phone under an account id, an account list
\* under a chat-user id
StoreArgs ==
    [bucket : {"tokens"}, key : Accounts, value : Tokens]
    \cup [bucket : {"mobiles"}, key : Accounts, value : {P2}]
    \cup [bucket : {"users"}, key : Users, value : {<<A1>>, <<A2, A1>>}]

InitStore ==
    /\ \E s \in Persisted :
          /\ Loaded(s.data)
          /\ plugin_data = load_data(data_file)
          /\ envs = s.panel
          /\ next_id = s.nid
    /\ today = Day0
    /\ conv = [u \in Users |-> IdleConv]
    /\ used = NoUse
    /\ sweep = IdleSweep
    /\ probe = NoProbe

\* bucket_set(bucket, key, value): the change in memory, then save_data
StoreSet(a, w) ==
    LET data == bucket_set(plugin_data, a.bucket, a.key, a.value)
        saved == save_data(data, data_file, w)
    IN /\ used.commands < MaxCommands
       /\ used' = [used EXCEPT !.commands = @ + 1]
       /\ plugin_data' = data
       /\ data_file' = saved.file
       /\ probe' = [op |-> "bucket_set", bucket |-> a.bucket, key |-> a.key,
                    value |-> a.value, write |-> w, raised |-> saved.raised]
       /\ UNCHANGED <<envs, next_id, today, conv, sweep, ql_client, now>>

\* bucket_del(bucket, key): nothing is written when the key is not there
StoreDel(a, w) ==
    LET present == bucket_get(plugin_data, a.bucket, a.key) # <<>>
        data == IF present THEN bucket_del(plugin_data, a.bucket, a.key) ELSE plugin_data
        saved == IF present THEN save_data(data, data_file, w)
                 ELSE [file |-> data_file, raised |-> FALSE]
    IN /\ used.commands < MaxCommands
       /\ used' = [used EXCEPT !.commands = @ + 1]
       /\ ~present => w = "ok"
       /\ plugin_data' = data
       /\ data_file' = saved.file
       /\ probe' = [op |-> "bucket_del", bucket |-> a.bucket, key |-> a.key,
                    value |-> a.value, write |-> IF present THEN w ELSE "none",
                    raised |-> saved.raised]
       /\ UNCHANGED <<envs, next_id, today, conv, sweep, ql_client, now>>

\* the process starts again: plugin_data = load_data()
StoreLoad ==
    /\ plugin_data' = load_data(data_file)
    /\ probe' = [op |-> "load_data"]
    /\ UNCHANGED <<envs, next_id, today, conv, sweep, used, data_file, ql_client, now>>

NextStore ==
    \/ \E a \in StoreArgs, w \in WriteOutcomes : StoreSet(a, w)
    \/ \E a \in StoreArgs, w \in WriteOutcomes : StoreDel(a, w)
    \/ StoreLoad

SpecStore == InitStore /\ [][NextStore]_vars

\* every bucket and key but the one of the call reads as before
OthersUnchanged(bucket, key) ==
    \A b \in Buckets, k \in Accounts \cup Users :
        (b # bucket \/ k # key) =>
            bucket_get(plugin_data', b, k) = bucket_get(plugin_data, b, k)

\* C19: after bucket_set(b, k, v) bucket_get(b, k) returns v, after
\* bucket_del(b, k) it returns absent, every other bucket and key reading as
\* before; and when the call's write of the file has completed the file
\* holds the whole document that is in memory.
C19_StoreWrites ==
    [][/\ probe'.op = "bucket_set" =>
             /\ bucket_get(plugin_data', probe'.bucket, probe'.key) = <<probe'.value>>
             /\ OthersUnchanged(probe'.bucket, probe'.key)
             /\ probe'.write = "ok" => data_file' = File(plugin_data')
       /\ probe'.op = "bucket_del" =>
             /\ bucket_get(plugin_data', probe'.bucket, probe'.key) = <<>>
             /\ OthersUnchanged(probe'.bucket, probe'.key)
             /\ probe'.write = "ok" => data_file' = File(plugin_data')]_vars

\* a deletion of one of two accounts' tokens whose write has completed: the
\* other token is still there and the file holds the whole document
C19_Witness ==
    /\ probe.op = "bucket_del"
    /\ probe.bucket = "tokens"
    /\ probe.write = "ok"
    /\ bucket_get(plugin_data, "tokens", probe.key) = <<>>
    /\ \E k \in Accounts : k # probe.key /\ bucket_get(plugin_data, "tokens", k) # <<>>
    /\ Len(plugin_data.users) > 0
    /\ data_file = File(plugin_data)

EnvIds(list) == {list[i].id : i \in 1..Len(list)}

\* the variables of list, of the configured name, that carry the remark
\* add_or_update_env writes for the account: its phone, some chat user and
\* its authorization date
OwnEnvs(list, phone, auth) ==
    IF phone = <<>> \/ auth = <<>> THEN {}
    ELSE {i \in 1..Len(list) :
             /\ list[i].name = osname
             /\ \E u \in Users : list[i].remarks = Remarks(phone[1], u, auth[1])}

\* C2: a repeat login of the same chat user on the phone of account A1, which
\* has the panel variable E1, giving a new token: afterwards E1 (same id)
\* holds the URL-encoded new token and no further variable exists for A1 or
\* the phone.
C2_RepeatLoginUpdatesInPlace ==
    [][(/\ probe'.op = "login_code"
        /\ probe'.ret = "result"
        /\ probe'.existing # <<>>
        /\ probe'.existing[1].account_id = probe'.account[1]
        /\ Cardinality(MatchingEnvs(envs, probe'.account[1], probe'.phone)) = 1)
       => LET aft == MatchingEnvs(envs', probe'.account[1], probe'.phone)
              was == MatchingEnvs(envs, probe'.account[1], probe'.phone)
          IN /\ Cardinality(aft) = 1
             /\ \A i \in was, j \in aft :
                   /\ envs'[j].id = envs[i].id
                   /\ envs'[j].value = quote(probe'.token[1])]_vars

\* a repeat login after which a second variable carries the phone
C2_Diverges ==
    /\ probe.op = "login_code"
    /\ probe.ret = "result"
    /\ probe.existing # <<>>
    /\ probe.existing[1].account_id = probe.account[1]
    /\ Cardinality(MatchingEnvs(envs, probe.account[1], probe.phone)) = 2

\* C3: a login on a phone bound to no account, the vendor returning a token
\* and an account id, the panel holding no variable for the account or the
\* phone: the step ends with exactly one new variable, of the configured
\* name, its value the URL-encoded token, its remark containing the account
\* id, the phone and today's date.
C3_FreshLoginCreatesVariable ==
    [][(/\ probe'.op = "login_code"
        /\ probe'.ret = "result"
        /\ probe'.existing = <<>>
        /\ \A a \in Accounts : bucket_get(plugin_data, "mobiles", a) # <<probe'.phone>>
        /\ MatchingEnvs(envs, probe'.account[1], probe'.phone) = {})
       => /\ Len(envs') = Len(envs) + 1
          /\ \E j \in 1..Len(envs') :
                /\ envs'[j].id \notin EnvIds(envs)
                /\ envs'[j].name = osname
                /\ envs'[j].value = quote(probe'.token[1])
                /\ Contains(probe'.account[1], envs'[j].remarks)
                /\ Contains(probe'.phone, envs'[j].remarks)
                /\ Contains(DateStr(today), envs'[j].remarks)]_vars

\* a first login of a phone after which the panel holds no variable for it
C3_Diverges ==
    /\ probe.op = "login_code"
    /\ probe.ret = "result"
    /\ probe.existing = <<>>
    /\ bucket_get(plugin_data, "auths", probe.account[1]) = <<>>
    /\ MatchingEnvs(envs, probe.account[1], probe.phone) = {}

\* C4: in a sweep run, an account with a valid token whose authorization
\* ended yesterday and whose variable was written by add_or_update_env gets
\* exactly one notification and exactly one deletion, of that variable; an
\* account with a valid token and a later expiry date gets no notification
\* and no deletion, and the panel is left as it was.
C4_SweepExpiredAndValid ==
    [][(/\ probe'.op = "sweep_account"
        /\ probe'.token # <<>>
        /\ probe'.ver = "ok"
        /\ probe'.auth # <<>>
        /\ CanParseDate(probe'.auth[1])
        /\ probe'.listed /\ probe'.del_ok)
       => LET own == OwnEnvs(envs, probe'.phone, probe'.auth)
              auth_dt == ParseDate(probe'.auth[1])
          IN /\ (auth_dt = probe'.today_dt - 1 /\ Cardinality(own) = 1)
                   => /\ probe'.notified = 1
                      /\ \A i \in own :
                            /\ probe'.del_ids = <<envs[i].id>>
                            /\ envs' = SelectSeq(envs, LAMBDA e : e.id # envs[i].id)
             /\ auth_dt > probe'.today_dt
                   => /\ probe'.notified = 0
                      /\ probe'.del_ids = <<>>
                      /\ envs' = envs]_vars

\* an account expired since yesterday is notified and its variable, listed
\* by the panel, is neither asked to be deleted nor gone
C4_Diverges ==
    /\ probe.op = "sweep_account"
    /\ probe.ver = "ok"
    /\ probe.listed
    /\ probe.auth # <<>>
    /\ ParseDate(probe.auth[1]) = probe.today_dt - 1
    /\ probe.notified = 1
    /\ probe.del_ids = <<>>
    /\ OwnEnvs(envs, probe.phone, probe.auth) # {}

\* C5: each account the sweep checks gets exactly one outcome.  Token
\* missing: one notification, no deletion.  Token failing verification, or
\* token valid and expiry date before today: one notification and the
\* deletion of the account's variable.  Token valid and expiry date today or
\* later: no notification and no deletion.
C5_SweepOutcomes ==
    [][(probe'.op = "sweep_account" /\ probe'.listed)
       => LET own == OwnEnvs(envs, probe'.phone, probe'.auth)
              dated == probe'.auth # <<>> /\ CanParseDate(probe'.auth[1])
              removal == /\ probe'.notified = 1
                         /\ EnvIds(SelectSeq(envs, LAMBDA e :
                                      \E i \in own : e.id = envs[i].id))
                               = {probe'.del_ids[k] : k \in 1..Len(probe'.del_ids)}
          IN /\ probe'.token = <<>>
                   => probe'.notified = 1 /\ probe'.del_ids = <<>> /\ envs' = envs
             /\ (probe'.token # <<>> /\ probe'.ver \in {"fail", "nofields"})
                   => removal
             /\ (probe'.token # <<>> /\ probe'.ver = "ok" /\ dated
                    /\ ParseDate(probe'.auth[1]) < probe'.today_dt)
                   => removal
             /\ (probe'.token # <<>> /\ probe'.ver = "ok" /\ dated
                    /\ ParseDate(probe'.auth[1]) >= probe'.today_dt)
                   => probe'.notified = 0 /\ probe'.del_ids = <<>> /\ envs' = envs]_vars

\* an account whose token fails verification is notified and its variable
\* stays
C5_Diverges ==
    /\ probe.op = "sweep_account"
    /\ probe.ver = "fail"
    /\ probe.listed
    /\ probe.notified = 1
    /\ probe.del_ids = <<>>
    /\ OwnEnvs(envs, probe.phone, probe.auth) # {}

\* C6: a failure in the check of one account does not stop the sweep: when
\* a run ends, no account of the users it iterates is left unchecked.
C6_SweepFailureIsolated ==
    probe.op = "sweep_end" => probe.pending = {}

\* a run ended by the error verify_token raised, an account left unchecked
C6_Diverges ==
    /\ probe.op = "sweep_end"
    /\ probe.status = "raised"
    /\ probe.pending # {}

\* C10: login_with_sms gives a result only if the login call returned a
\* token and the verification of that token succeeded; otherwise it returns
\* absent, and the code step then writes nothing to the store.
C10_LoginOnlyWhenVerified ==
    [][probe'.op = "login_code"
       => /\ probe'.ret \in {"result", "absent"}
          /\ probe'.ret = "result" => (probe'.reg = "ok" /\ probe'.ver = "ok")
          /\ probe'.ret # "result" => plugin_data' = plugin_data]_vars

\* login_with_sms raised on a response of code 0 whose data is no object
C10_Diverges ==
    /\ probe.op = "login_code"
    /\ probe.ret = "raised"

(***************************************************************************)
(* Claims about the store under the chat commands                          *)
(***************************************************************************)
\* the list has no element twice
NoDuplicate(xs) == \A i \in 1..Len(xs) : \A j \in 1..Len(xs) : xs[i] = xs[j] => i = j

\* C15: after any sequence of login, manage, query, admin authorization and
\* cleanup operations, no user's account list in the users bucket holds an
\* account id twice.
C15_NoDuplicateAccounts ==
    \A i \in 1..Len(plugin_data.users) : NoDuplicate(plugin_data.users[i].v)

\* a login for an account that the user's list already held: the list holds
\* it once
C15_Witness ==
    /\ probe.op = "login_code"
    /\ probe.ret = "result"
    /\ probe.listed
    /\ UserAccounts(plugin_data, probe.user) = <<probe.account[1]>>

\* C16: no user has an entry in the users bucket with an empty account list;
\* a deletion or cleanup that takes a user's last account removes the entry.
C16_NoEmptyAccountList ==
    /\ \A i \in 1..Len(plugin_data.users) : Len(plugin_data.users[i].v) > 0
    /\ probe.op = "manage_delete" =>
          \/ bucket_get(plugin_data, "users", probe.user) = <<>>
          \/ Len(UserAccounts(plugin_data, probe.user)) > 0

\* a manage deletion of the user's only account: the entry is gone
C16_Witness ==
    /\ probe.op = "manage_delete"
    /\ bucket_get(plugin_data, "users", probe.user) = <<>>

\* what C17 says of logins and removals: the token a successful login got is
\* the stored one, and a manage deletion or a cleanup leaves no token of the
\* accounts it took
TokenWrittenAndRemoved ==
    /\ (probe.op = "login_code" /\ probe.ret = "result") =>
          bucket_get(plugin_data, "tokens", probe.account[1]) = probe.token
    /\ probe.op = "manage_delete" =>
          bucket_get(plugin_data, "tokens", probe.account) = <<>>
    /\ probe.op = "clean" =>
          \A a \in probe.expired : bucket_get(plugin_data, "tokens", a) = <<>>

\* the scheduled check has just found the token of an account invalid
SweepFoundInvalid ==
    /\ probe.op = "sweep_account"
    /\ probe.token # <<>>
    /\ probe.ver \in {"fail", "nofields"}

ValidOn(data, account, day) ==
    LET auth == bucket_get(data, "auths", account)
    IN /\ auth # <<>>
       /\ CanParseDate(auth[1])
       /\ ParseDate(auth[1]) >= day

\* C20: the login flow calls add_or_update_env for the logged-in account only
\* if the account has a parsable expiry date on or after today; for an
\* account with no, an unparsable or a past expiry date the login creates
\* and updates no panel variable.
C20_LoginGatedByExpiry ==
    [][probe'.op = "login_code" =>
          LET valid == /\ probe'.account # <<>>
                       /\ ValidOn(plugin_data', probe'.account[1], today)
          IN /\ probe'.oc # <<>> => valid
             /\ ~valid => (probe'.oc = <<>> /\ envs' = envs /\ next_id' = next_id)]_vars

\* a login for an account whose stored date is no date, the panel holding a
\* variable for the phone: no call, the variable is as it was
C20_Witness ==
    /\ probe.op = "login_code"
    /\ probe.ret = "result"
    /\ probe.oc = <<>>
    /\ \E b \in BadDates : bucket_get(plugin_data, "auths", probe.account[1]) = <<b>>
    /\ Len(envs) = 1
    /\ envs[1].value = quote(T1)
    /\ probe.token = <<T2>>

(***************************************************************************)
(* Claims about the turns of the conversations                             *)
(***************************************************************************)
\* the prompts of the conversations
Prompts ==
    {"login_phone", "login_code", "manage_choice", "manage_action", "manage_confirm",
     "admin_choice", "admin_input", "clean_confirm"}

\* the step is a turn of u at prompt
TurnAt(u, prompt) ==
    /\ probe'.op = "turn"
    /\ probe'.user = u
    /\ probe'.prompt = prompt
    /\ conv[u].pc = prompt

\* the step leaves the store, its file and the panel as they were
NothingWritten ==
    /\ plugin_data' = plugin_data
    /\ data_file' = data_file
    /\ envs' = envs
    /\ next_id' = next_id

\* C21: at every prompt of every conversation the input q ends the
\* conversation in that turn, and the turn writes nothing to the store and
\* makes no vendor or panel call.
C21_QuitEndsTurn ==
    [][\A u \in Users : \A prompt \in Prompts :
          (TurnAt(u, prompt) /\ probe'.text = <<"q">>)
             => /\ conv'[u] = IdleConv
                /\ probe'.calls = <<>>
                /\ ~probe'.wrote
                /\ NothingWritten]_vars

\* a login was given up at the code prompt, after the phone step had taken
\* the account's phone and token out of the store
C21_Witness ==
    /\ probe.op = "turn"
    /\ probe.prompt = "login_code"
    /\ probe.text = <<"q">>
    /\ conv[probe.user] = IdleConv
    /\ \E a \in Accounts :
          /\ InSeq(a, UserAccounts(plugin_data, probe.user))
          /\ bucket_get(plugin_data, "tokens", a) = <<>>

\* the text is no answer that the prompt takes and is not q
InvalidInput(u, prompt, text) ==
    LET t == strip(text)
        st == conv[u]
    IN /\ lower(t) # <<"q">>
       /\ CASE prompt = "login_phone" -> ~(isdigit(t) /\ Len(t) = 11)
            [] prompt = "login_code" -> ~(isdigit(t) /\ Len(t) = 4)
            [] prompt = "manage_choice" ->
                  ~(CanParseInt(t) /\ 1 <= ParseInt(t) /\ ParseInt(t) <= Len(st.accounts))
            [] prompt = "manage_action" -> t \notin {<<"1">>, <<"2">>}
            [] prompt = "manage_confirm" ->
                  IF st.next_action = "authorize"
                  THEN ~(CanParseInt(lower(t)) /\ 1 <= ParseInt(lower(t))
                         /\ ParseInt(lower(t)) <= 999)
                  ELSE lower(t) \notin {<<"y">>, <<"n">>}
            [] prompt = "admin_choice" -> t \notin {<<"1">>, <<"2">>, <<"3">>}
            [] prompt = "admin_input" ->
                  IF st.admin_action = "auth_all"
                  THEN ~(CanParseInt(t) /\ ParseInt(t) > 0)
                  ELSE st.admin_action = "modify_time_select_type"
                       /\ t \notin {<<"1">>, <<"2">>}
            [] OTHER -> FALSE

\* the calls of the vendor API and the panel upsert
ApiCalls == {"send_sms_code", "login_with_sms", "verify_token", "add_or_update_env"}

\* C22: in the conversations an invalid input is answered by the same
\* prompt, with no call and no write of the store, and a failed call of the
\* vendor API or of the panel upsert (code dispatch, SMS login, token
\* verification, add_or_update_env) ends the turn with a failure message:
\* the conversation does not go on to its next step and does not report
\* success.
C22_FailuresEndTurn ==
    [][\A u \in Users : \A prompt \in Prompts :
          /\ (TurnAt(u, prompt) /\ InvalidInput(u, prompt, probe'.text))
                => /\ conv'[u] = conv[u]
                   /\ probe'.reply = "reprompt"
                   /\ probe'.calls = <<>>
                   /\ ~probe'.wrote
                   /\ NothingWritten
          /\ (TurnAt(u, prompt) /\ probe'.failed \cap ApiCalls # {})
                => /\ conv'[u] = IdleConv
                   /\ probe'.reply = "failure"]_vars

\* a login whose add_or_update_env returned False was answered with the
\* message of a successful binding, the panel holding no variable for the
\* account
C22_Diverges ==
    /\ probe.op = "turn"
    /\ probe.prompt = "login_code"
    /\ probe.failed = {"add_or_update_env"}
    /\ probe.reply = "success"
    /\ envs = <<>>

\* the entries of the account in the tokens, mobiles and auths buckets
Entries(data, account) ==
    [bucket \in {"tokens", "mobiles", "auths"} |-> bucket_get(data, bucket, account)]

NoEntries == [bucket \in {"tokens", "mobiles", "auths"} |-> <<>>]

\* C25: in the manage conversation, the answer y to the deletion prompt
\* removes the selected account from the user's list and removes its
\* entries from the tokens, mobiles and auths buckets, and leaves the
\* entries of every other account as they were; the answers n and q leave
\* the whole store and the panel as they were.
C25_DeleteFrame ==
    [][\A u \in Users :
          (TurnAt(u, "manage_confirm") /\ conv[u].next_action = "delete_confirm")
             => LET account_id == conv[u].selected_account_id
                    confirm == lower(strip(probe'.text))
                IN /\ confirm = <<"y">> =>
                         /\ ~InSeq(account_id, UserAccounts(plugin_data', u))
                         /\ Entries(plugin_data', account_id) = NoEntries
                         /\ \A other \in Accounts \ {account_id} :
                               Entries(plugin_data', other) = Entries(plugin_data, other)
                   /\ confirm \in {<<"n">>, <<"q">>} => NothingWritten]_vars

\* one of a user's two accounts has been deleted: the other is still listed
\* with its token, its phone and its date
C25_Witness ==
    /\ probe.op = "turn"
    /\ probe.prompt = "manage_confirm"
    /\ probe.text = <<"y">>
    /\ probe.reply = "success"
    /\ \E account_id \in Accounts, other \in Accounts :
          /\ account_id # other
          /\ Entries(plugin_data, account_id) = NoEntries
          /\ UserAccounts(plugin_data, probe.user) = <<other>>
          /\ \A bucket \in {"tokens", "mobiles", "auths"} :
                Entries(plugin_data, other)[bucket] # <<>>

\* the account is on the list of some user
Listed(data, account) == \E u \in Users : InSeq(account, UserAccounts(data, u))

\* C26: after a confirmed cleanup, every account still listed under a user
\* has a parsable date on or after today, and its token, phone and date are
\* what they were; every account that was listed with no date, with a text
\* that is no date or with a past date is on no list and has no entry in
\* tokens, mobiles or auths.
C26_CleanupSplitsByExpiry ==
    [][(probe'.op = "clean" /\ \E u \in Users : conv[u].pc = "clean_confirm")
          => \A account \in Accounts :
                /\ Listed(plugin_data', account) =>
                      /\ IsAuthorized(bucket_get(plugin_data', "auths", account), today)
                      /\ Entries(plugin_data', account) = Entries(plugin_data, account)
                /\ (/\ Listed(plugin_data, account)
                    /\ ~IsAuthorized(bucket_get(plugin_data, "auths", account), today)) =>
                      /\ ~Listed(plugin_data', account)
                      /\ Entries(plugin_data', account) = NoEntries]_vars

\* a cleanup has taken one account and left the other, which is still
\* listed with its token, its phone and its date
C26_Witness ==
    /\ probe.op = "clean"
    /\ \E gone \in Accounts, kept \in Accounts :
          /\ probe.expired = {gone}
          /\ kept # gone
          /\ ~Listed(plugin_data, gone)
          /\ Entries(plugin_data, gone) = NoEntries
          /\ Listed(plugin_data, kept)
          /\ IsAuthorized(bucket_get(plugin_data, "auths", kept), today)
          /\ bucket_get(plugin_data, "tokens", kept) # <<>>
          /\ bucket_get(plugin_data, "mobiles", kept) # <<>>

\* the step is the code step of a login by u that got a result, for a phone
\* that the phone step found bound to one of the accounts of u
Relogin(u) ==
    /\ conv[u].pc = "login_code"
    /\ conv[u].existing # <<>>
    /\ probe'.op = "login_code"
    /\ probe'.user = u
    /\ probe'.ret = "result"

\* the date an auths entry holds: an entry with an empty text holds none
\* (`if auth_date:`)
Held(auth) == IF auth = <<>> \/ Len(auth[1]) = 0 THEN <<>> ELSE auth

\* C27: when a user logs in again with a phone bound to one of their
\* accounts, the date the old account held before the login is the date of
\* the account the login returns afterwards, and when the returned id is
\* not the old one, no auths entry is left for the old id.
C27_ReloginMovesExpiry ==
    [][\A u \in Users :
          Relogin(u) =>
             LET old == conv[u].existing[1]
                 new_account == probe'.account[1]
             IN /\ Held(bucket_get(plugin_data', "auths", new_account)) = Held(old.auth)
                /\ new_account # old.account_id =>
                      bucket_get(plugin_data', "auths", old.account_id) = <<>>]_vars

\* a renewed login has returned another id than the one the phone was bound
\* to, and the date of the old id is still in the auths bucket
C27_Diverges ==
    /\ probe.op = "login_code"
    /\ probe.ret = "result"
    /\ probe.existing # <<>>
    /\ probe.account[1] # probe.existing[1].account_id
    /\ Held(probe.existing[1].auth) # <<>>
    /\ bucket_get(plugin_data, "auths", probe.existing[1].account_id)
          = probe.existing[1].auth
    /\ bucket_get(plugin_data, "auths", probe.account[1]) = probe.existing[1].auth

\* the administrator's input was taken and a further input was asked for:
\* the account after the user id of option 2, the days or the user after
\* the kind of change of option 3
AskedFurther(u) ==
    /\ probe.op = "turn"
    /\ probe.user = u
    /\ probe.prompt = "admin_input"
    /\ probe.reply = "prompt"

\* a step of the authorization conversation of u has written dates
Applied(u) ==
    /\ probe.op = "turn"
    /\ probe.user = u
    /\ probe.prompt = "admin_input"
    /\ probe.reply = "success"
    /\ probe.wrote

\* C28: in the administrator's authorization conversation, with control
\* passing to the next registered handler when a handler returns, option 2
\* followed by an existing user id, an account index and a month count
\* eventually extends the account's date by empower, and option 3
\* eventually applies the day adjustment entered.
C28_AdminStepsComplete == \A u \in Users : AskedFurther(u) ~> Applied(u)

\* the user id entered under option 2 was accepted and the account asked
\* for, and the conversation is over
C28_Diverges ==
    /\ probe.op = "turn"
    /\ probe.prompt = "admin_input"
    /\ probe.reply = "prompt"
    /\ probe.text \in Users
    /\ conv[probe.user].pc = "idle"

\* C29: every vendor and panel call returning, a run of the scheduled check
\* comes to its end, and it checks an account id at most once, also when
\* the id is on the lists of several users: a step that checks an account
\* finds it unchecked, marks it checked and sends at most one notification,
\* and no account leaves the checked ones while the run goes on.
C29_SweepEndsAndChecksOnce ==
    /\ (sweep.pc = "run") ~> (sweep.pc = "idle")
    /\ [][(sweep.pc = "run" /\ sweep'.pc = "run")
             => /\ sweep.checked \subseteq sweep'.checked
                /\ Cardinality(sweep'.checked \ sweep.checked) <= 1
                /\ (Len(sweep.accounts) > 0 /\ probe'.op = "sweep_account")
                     => /\ probe'.account \notin sweep.checked
                        /\ sweep'.checked = sweep.checked \cup {probe'.account}
                        /\ probe'.notified <= 1]_vars

\* a run has ended, having checked an account that both users list and
\* gone past it in the second list
C29_Witness ==
    /\ probe.op = "sweep_end"
    /\ probe.status = "done"
    /\ sweep.pc = "idle"
    /\ \E account_id \in Accounts :
          \A u \in Users : InSeq(account_id, UserAccounts(plugin_data, u))

\* no conversation is under way
AllIdle == \A u \in Users : conv[u].pc = "idle"

\* C30: after any sequence of operations, a login cancelled or failed after
\* its phone step and a deletion by one user of an account that another
\* lists among them, every account id on the list of a user has an entry
\* in the tokens bucket and an entry in the mobiles bucket.
C30_ListedHaveTokenAndPhone ==
    AllIdle =>
       \A account \in Accounts :
          Listed(plugin_data, account) =>
             /\ bucket_get(plugin_data, "tokens", account) # <<>>
             /\ bucket_get(plugin_data, "mobiles", account) # <<>>

\* with no conversation under way, a user lists an account that has neither
\* a token nor a phone
C30_Diverges ==
    /\ AllIdle
    /\ \E account \in Accounts :
          /\ Listed(plugin_data, account)
          /\ bucket_get(plugin_data, "tokens", account) = <<>>
          /\ bucket_get(plugin_data, "mobiles", account) = <<>>

\* C31: a login conversation that ends without a successful login (the
\* code could not be sent, q at the code prompt, or the vendor refused the
\* login) leaves the users, tokens, mobiles and auths buckets and the panel
\* as they were before it started: its last turn writes nothing, and the
\* account that the phone was bound to still has its phone and its token.
C31_FailedLoginLeavesStore ==
    [][\A u \in Users :
          /\ (TurnAt(u, "login_phone") /\ probe'.reply = "failure") => NothingWritten
          /\ (TurnAt(u, "login_code") /\ probe'.reply \in {"cancel", "failure", "none"})
                => /\ NothingWritten
                   /\ conv[u].existing # <<>> =>
                         LET acc == conv[u].existing[1].account_id
                         IN /\ bucket_get(plugin_data', "mobiles", acc) = <<conv[u].phone>>
                            /\ bucket_get(plugin_data', "tokens", acc) # <<>>]_vars

\* the code could not be sent for a phone that was bound: the conversation
\* is over and the phone step has written to the store
C31_Diverges ==
    /\ probe.op = "turn"
    /\ probe.prompt = "login_phone"
    /\ probe.reply = "failure"
    /\ probe.wrote
    /\ conv[probe.user] = IdleConv
    /\ \E a \in Accounts :
          /\ InSeq(a, UserAccounts(plugin_data, probe.user))
          /\ bucket_get(plugin_data, "mobiles", a) = <<>>

\* the variables of the configured name whose remark carries the phone
WithPhone(list, phone) ==
    {i \in 1..Len(list) : list[i].name = osname /\ Contains(PhoneTag(phone), list[i].remarks)}

\* C32: after any sequence of calls of add_or_update_env for one name and
\* one phone, a call in which the listing fails and the add succeeds among
\* them, the panel holds at most one variable of that name whose remark
\* carries the phone.
C32_OneVariablePerPhone ==
    \A phone \in Phones : Cardinality(WithPhone(envs, phone)) <= 1

\* a call whose listing failed has added a variable and returned success,
\* and the panel holds two variables for its phone
C32_Diverges ==
    /\ probe.op = "upsert"
    /\ ~probe.oc.find
    /\ probe.oc.write
    /\ probe.ret
    /\ probe.calls = <<"get_envs", "add_env">>
    /\ Cardinality(WithPhone(envs, probe.args.phone)) = 2

\* the date of the call that the probe records
DatePassed == CHOOSE d \in UpsertDates : probe.remarks = Remarks(probe.args.phone, U1, d)

\* C33: whenever add_or_update_env returns success, the panel holds a
\* variable of the given name for the phone of the call whose value is the
\* URL-encoded token of the call and whose remark carries the date of the
\* call.
C33_SuccessMeansWritten ==
    (probe.op = "upsert" /\ probe.ret) =>
        \E i \in WithPhone(envs, probe.args.phone) :
            /\ envs[i].value = quote(probe.args.value)
            /\ Contains(DatePassed, envs[i].remarks)

\* a call whose first listing and whose add failed has returned success on
\* finding, in its second listing, the variable of an earlier call: no
\* variable holds the token of the call
C33_Diverges ==
    /\ probe.op = "upsert"
    /\ probe.ret
    /\ ~probe.raced
    /\ probe.calls = <<"get_envs", "add_env", "get_envs">>
    /\ WithPhone(envs, probe.args.phone) # {}
    /\ \A i \in 1..Len(envs) : envs[i].value # quote(probe.args.value)

\* the variable carries the tag of the phone that the store holds for one of
\* the accounts
OwnedBy(e, data, accounts) ==
    \E a \in accounts :
        /\ bucket_get(data, "mobiles", a) # <<>>
        /\ Contains(PhoneTag(bucket_get(data, "mobiles", a)[1]), e.remarks)

\* C34: a step of the sweep that deletes panel variables for an account, and
\* a cleanup that deletes them for the accounts it removes, take only
\* variables that belong to those accounts: a variable of another account,
\* whose remark holds the account id only as part of its phone, its user id
\* or its date, stays in the panel.
C34_DeletesOwnOnly ==
    [][LET gone == {i \in 1..Len(envs) :
                       \A j \in 1..Len(envs') : envs'[j].id # envs[i].id}
       IN /\ probe'.op = "sweep_account" =>
                \A i \in gone : OwnedBy(envs[i], plugin_data, {probe'.account})
          /\ probe'.op = "clean" =>
                \A i \in gone : OwnedBy(envs[i], plugin_data, probe'.expired)]_vars

\* the sweep found account A2, whose phone is P2, expired and deleted the
\* variable written for P1, the phone of account A1: the digits of A2 occur
\* in P1
C34_Diverges ==
    /\ probe.op = "sweep_account"
    /\ probe.account = A2
    /\ probe.phone = <<P2>>
    /\ probe.del_ok
    /\ probe.del_ids = <<1>>
    /\ envs = <<>>
    /\ bucket_get(plugin_data, "mobiles", A1) = <<P1>>

\* C35: with conversations of one chat user pending in two sessions, their
\* turns interleaved in any order, an account leaves the user's list only by
\* the step that deletes that account: an account a completed login added
\* is not dropped by a manage deletion of another account or by another
\* login that began earlier and writes the list later.
C35_NoLostListUpdate ==
    [][\A a \in Accounts :
          (/\ InSeq(a, UserAccounts(plugin_data, U1))
           /\ ~InSeq(a, UserAccounts(plugin_data', U1)))
          => (probe'.op = "manage_delete" /\ probe'.account = a)]_vars

\* on an empty store a login in one session added account A1, and the login
\* on P2 in the other session, whose phone step came before, has then
\* written the list: A1 has its phone and token and is on no list
C35_Diverges ==
    /\ probe.op = "login_code"
    /\ probe.ret = "result"
    /\ probe.account = <<A2>>
    /\ UserAccounts(plugin_data, U1) = <<A2>>
    /\ bucket_get(plugin_data, "mobiles", A1) = <<P1>>
    /\ bucket_get(plugin_data, "tokens", A1) # <<>>
    /\ bucket_get(plugin_data, "auths", A1) = <<>>

\* C36: a grant of N months in the manage conversation and a batch grant of
\* M months by the administrator, on the same account and in any order of
\* their steps, each extend the date the store holds when they write: the
\* date afterwards is empower applied for one and then for the other, and
\* the later write does not discard the earlier extension.
C36_GrantsCompose ==
    [][\A u \in Users :
          /\ (/\ TurnAt(u, "manage_confirm")
              /\ conv[u].next_action = "authorize"
              /\ probe'.reply = "success")
             => bucket_get(plugin_data', "auths", conv[u].selected_account_id)
                   = <<empower(bucket_get(plugin_data, "auths", conv[u].selected_account_id),
                               ParseInt(lower(strip(probe'.text))), today)>>
          /\ (/\ conv[u].pc = "auth_all_loop"
              /\ conv'[u] # conv[u]
              /\ probe' = NoProbe)
             => \A a \in Accounts :
                   bucket_get(plugin_data', "auths", a) # bucket_get(plugin_data, "auths", a)
                   => bucket_get(plugin_data', "auths", a)
                         = <<empower(bucket_get(plugin_data, "auths", a),
                                     conv[u].batch.months, today)>>]_vars

\* account A1 had no date or an expired one.  The batch grant of one month
\* has written its date and stands at its panel call for the account; the
\* user's grant of one month, the account chosen before, has then written as
\* well: the date is one month from today, not two
C36_Diverges ==
    /\ probe.op = "turn"
    /\ probe.prompt = "manage_confirm"
    /\ probe.user = U2
    /\ probe.text = <<"1">>
    /\ probe.reply = "success"
    /\ conv[U1].pc = "auth_all_loop"
    /\ conv[U1].batch.months = 1
    /\ A1 \in conv[U1].batch.processed
    /\ conv[U1].batch.call # <<>>
    /\ conv[U1].batch.call[1].account_id = A1
    /\ conv[U1].batch.call[1].new_auth_date = empower(<<>>, 1, Day0)
    /\ bucket_get(plugin_data, "auths", A1) = <<empower(<<>>, 1, Day0)>>

\* C37: with the scheduled check and the logins interleaved, the check
\* deletes panel variables for an account only if, when delete_envs takes
\* effect, the store holds the token the vendor rejected or a date that has
\* passed; a variable that a login has updated meanwhile is not deleted.
C37_SweepDeletesOnCurrentData ==
    [][(probe'.op = "sweep_delete" /\ Len(probe'.gone) > 0) =>
          LET account_id == probe'.account
              auth_date == bucket_get(plugin_data, "auths", account_id)
          IN \/ /\ probe'.invalid
                /\ bucket_get(plugin_data, "tokens", account_id) = <<probe'.token>>
             \/ /\ auth_date # <<>>
                /\ Len(auth_date[1]) > 0
                /\ CanParseDate(auth_date[1])
                /\ ParseDate(auth_date[1]) < today]_vars

\* the check found token T1 of the account rejected and came to delete_envs;
\* a login then stored token T2 and wrote it to the account's variable; the
\* check has deleted that variable, the account being authorized
C37_Diverges ==
    /\ probe.op = "sweep_delete"
    /\ probe.invalid
    /\ probe.token = T1
    /\ bucket_get(plugin_data, "tokens", probe.account) = <<T2>>
    /\ IsAuthorized(bucket_get(plugin_data, "auths", probe.account), today)
    /\ \E i \in 1..Len(probe.gone) : probe.gone[i].value = quote(T2)
    /\ envs = <<>>

\* the chat users whose list holds the account
Owners(data, account) == {u \in Users : InSeq(account, UserAccounts(data, u))}

\* C38: after any sequence of logins by any users, each vendor account id is
\* on the list of at most one chat user, and a panel variable carrying the
\* phone of a listed account names that user as its owner in the remark.
C38_OneOwnerPerAccount ==
    \A a \in Accounts :
        /\ Cardinality(Owners(plugin_data, a)) <= 1
        /\ \A u \in Owners(plugin_data, a) : \A i \in 1..Len(envs) :
              (/\ bucket_get(plugin_data, "mobiles", a) # <<>>
               /\ Contains(PhoneTag(bucket_get(plugin_data, "mobiles", a)[1]), envs[i].remarks))
              => Contains(<<"<gun>", "<yong>", "<hu>", ":">> \o u \o <<"<gun>">>,
                          envs[i].remarks)

\* chat user U2 has logged in on the phone of account A1, which is on the
\* list of U1: the account is on both lists
C38_Diverges ==
    /\ probe.op = "login_code"
    /\ probe.ret = "result"
    /\ probe.user = U2
    /\ probe.account = <<A1>>
    /\ Owners(plugin_data, A1) = {U1, U2}

\* the variables of the configured name that carry the tag of the phone
Remaining(panel, phone) ==
    {i \in 1..Len(panel) : panel[i].name = osname /\ Contains(PhoneTag(phone), panel[i].remarks)}

\* C39: when a confirmed cleanup has completed, the panel holds no variable
\* of the configured name for an account whose local data the cleanup has
\* removed, whether or not the listing and the deletion of the panel
\* variables succeeded.
C39_CleanupLeavesNoVariable ==
    [][probe'.op = "clean" =>
          \A a \in probe'.expired :
              bucket_get(plugin_data, "mobiles", a) # <<>>
              => Remaining(envs', bucket_get(plugin_data, "mobiles", a)[1]) = {}]_vars

\* the cleanup has removed the local data of account A1 and a panel call of
\* its has failed: the variable of the phone of A1 is still in the panel
C39_Diverges ==
    /\ probe.op = "clean"
    /\ A1 \in probe.expired
    /\ used.failures = 1
    /\ Entries(plugin_data, A1) = NoEntries
    /\ Remaining(envs, P1) # {}

====
